---- MODULE Spec2Model ----
(***************************************************************************)
(* Path guiding core of appleseed: the pass controller (GPTPassCallback),  *)
(* the directional quadtree (QuadTreeNode) and the per-leaf distribution   *)
(* (DTree) with its lock-free accumulators and spin-locked Adam state.     *)
(*                                                                         *)
(* Three specifications share this module:                                 *)
(*   PassSpec  - the host alternating on_pass_begin / render / on_pass_end *)
(*   RecSpec   - worker threads running DTree::record concurrently         *)
(*   QuadSpec  - record / build / restructure cycles of one DTree          *)
(***************************************************************************)
EXTENDS Integers, Sequences, FiniteSets, TLC

(***************************************************************************)
(* Bounds of the model.                                                    *)
(***************************************************************************)
\* Largest number of passes the sample budget pays for.
MaxBudgetPasses == 33

\* size_t arithmetic is modular; the modulus is scaled down from 2^64.
SizeModulus == 65536

\* gptpasscallback.cpp:150, the sample count training must exceed before
\* the variance test is trusted.
MinSamplesForVarianceTest == 256

\* gptpasscallback.cpp:52
ImageBufferCapacity == 4

VARIABLES
    \* ---- GPTPassCallback and its host ----
    pc,                             \* host position: begin, render, end, done
    m_params,                       \* iteration_progression, samples_per_pass
    m_iter,
    m_max_passes,
    m_passes_rendered,
    m_passes_left_curr_iter,
    m_num_passes_curr_iter,
    m_remaining_passes,
    m_last_extrapolated_variance,   \* a fraction num/den, den = 0 is +infinity
    m_is_final_iter,
    m_var_increase,
    m_image_buffer,
    m_inverse_variance_buffer,
    aborted,                        \* the abort switch
    finished,                       \* what the last on_pass_end returned
    fb_passes,                      \* passes accumulated in the framebuffer
    sd_final_calls,                 \* calls of STree::start_final_iteration
    sd_build_calls,                 \* calls of STree::build
    fb_clear_calls,                 \* calls of framebuffer clear
    fb_frame,                       \* what combine_iterations wrote to the frame
    last_call,                      \* what the last callback did (history)
    \* ---- one DTree ----
    d_params,                       \* GPTParameters read by the DTree
    d_tree,                         \* the DTree: a record of its members
    \* ---- worker threads inside DTree::record, and a sampler ----
    t_pc,                           \* thread -> position in DTree::record
    t_rec,                          \* thread -> the DTreeRecord it records
    t_current,                      \* thread -> local "current" of atomic_add
    s_pc,                           \* position of the sampler construction
    s_fraction,                     \* m_bsdf_sampling_fraction of the sampler
    t_before,                       \* history: the DTree when the pass began
    lock_owner,                     \* history: who holds m_atomic_flag
    unlocked_access,                \* history: Adam state touched unlocked
    \* ---- record / build / restructure cycles ----
    q_phase,                        \* accumulate, built
    q_records,                      \* records made in the current pass
    q_cycles,                       \* builds so far
    q_last,                         \* what the last operation did (history)
    \* ---- the STree ----
    st_params,                      \* GPTParameters of the STree
    st_nodes,                       \* path -> STreeNode (m_axis, m_d_tree)
    st_is_built,                    \* STree::m_is_built
    st_phase,                       \* render, subdivide (inside STree::build)
    st_iter,                        \* iteration of the next STree::build
    st_required,                    \* required_samples of the running build
    st_records,                     \* STree::record calls so far
    st_last,                        \* what the last operation did (history)
    \* ---- a DTree that is sampled ----
    ds_sample,                      \* the DTreeSample DTree::sample fills
    ds_pdf,                         \* what DTree::pdf returned last
    ds_last,                        \* what the last operation did (history)
    \* ---- the Adam state of a DTree in floats ----
    ad_kind,                        \* kinds of m_first_moment, ... m_theta
    ad_copy,                        \* the DTree copied by an STree split
    ad_steps,                       \* records and builds so far
    ad_last,                        \* what the last operation did (history)
    \* ---- a GPTVertexPath ----
    vp_path,                        \* m_path: slot -> GPTVertex
    vp_index,                       \* m_path_index
    vp_adds,                        \* radiance additions so far
    vp_log,                         \* the calls of STree::record
    vp_touched,                     \* history: slots the last call accessed
    vp_last,                        \* what the last operation did (history)
    \* ---- a PathGuidedSampler ----
    gs_config,                      \* the members set by the constructor
    gs_call,                        \* outputs and queries of the last sample
    gs_last,                        \* what the last operation did (history)
    \* ---- the JobQueue of STree::build ----
    jq_scheduled,                   \* jobs scheduled and not yet acquired
    jq_running,                     \* worker -> the job it executes
    jq_log,                         \* history: jobs scheduled by this build
    jq_done,                        \* history: jobs that have completed
    jq_peak,                        \* history: most jobs running at once
    \* ---- the RadianceProxy of a DTree ----
    px_proxy,                       \* DTree::m_radiance_proxy
    px_sampler,                     \* m_radiance_proxy of the last sampler
    \* ---- the root sums of a DTree as floats ----
    rt_current,                     \* kind of the sum of the current sums
    rt_previous                     \* kind of the root's previous sum

passVars == <<pc, m_params, m_iter, m_max_passes, m_passes_rendered,
              m_passes_left_curr_iter, m_num_passes_curr_iter,
              m_remaining_passes, m_last_extrapolated_variance,
              m_is_final_iter, m_var_increase, m_image_buffer,
              m_inverse_variance_buffer, aborted, finished, fb_passes,
              sd_final_calls, sd_build_calls, fb_clear_calls, fb_frame,
              last_call>>

dtreeVars == <<d_params, d_tree>>

threadVars == <<t_pc, t_rec, t_current, s_pc, s_fraction, t_before,
                lock_owner, unlocked_access>>

quadVars == <<q_phase, q_records, q_cycles, q_last>>

streeVars == <<st_params, st_nodes, st_is_built, st_phase, st_iter,
               st_required, st_records, st_last>>

coreVars == <<passVars, dtreeVars, threadVars, quadVars>>

sampleVars == <<ds_sample, ds_pdf, ds_last>>

adamVars == <<ad_kind, ad_copy, ad_steps, ad_last>>

pathVars == <<vp_path, vp_index, vp_adds, vp_log, vp_touched, vp_last>>

guidedVars == <<gs_config, gs_call, gs_last>>

jobVars == <<jq_scheduled, jq_running, jq_log, jq_done, jq_peak>>

proxyVars == <<px_proxy, px_sampler>>

rootVars == <<rt_current, rt_previous>>

auxVars == <<streeVars, sampleVars, adamVars, pathVars, guidedVars, jobVars, proxyVars, rootVars>>

\* What the steps of one specification leave alone.
besideSTree == <<coreVars, sampleVars, adamVars, pathVars, guidedVars, jobVars, proxyVars, rootVars>>
besideSample == <<passVars, threadVars, quadVars, streeVars, adamVars, pathVars, guidedVars, jobVars, proxyVars, rootVars>>
besideAdam == <<passVars, threadVars, quadVars, streeVars, sampleVars, pathVars, guidedVars, jobVars, proxyVars, rootVars>>
besidePath == <<coreVars, streeVars, sampleVars, adamVars, guidedVars, jobVars, proxyVars, rootVars>>
besideGuided == <<coreVars, streeVars, sampleVars, adamVars, pathVars, jobVars, proxyVars, rootVars>>

besideJob == <<coreVars, sampleVars, adamVars, pathVars, guidedVars, proxyVars, rootVars>>

vars == <<coreVars, auxVars>>

(***************************************************************************)
(* Helpers.                                                                *)
(***************************************************************************)
Min(a, b) == IF a < b THEN a ELSE b

Max(a, b) == IF a > b THEN a ELSE b

\* Unsigned wrap-around of size_t.
SizeT(x) == x % SizeModulus

RECURSIVE Pow2(_)
Pow2(n) == IF n = 0 THEN 1 ELSE 2 * Pow2(n - 1)

\* std::numeric_limits<float>::infinity()
Infinity == [num |-> 1, den |-> 0]

\* a > b on fractions with non-negative denominators; nothing exceeds
\* +infinity.
FracGreater(a, b) == a.num * b.den > b.num * a.den

RECURSIVE GCD(_, _)
GCD(a, b) == IF b = 0 THEN a ELSE GCD(b, a % b)

Abs(a) == IF a < 0 THEN -a ELSE a

\* The fraction n / d in lowest terms, d > 0.
Frac(n, d) ==
    LET g == GCD(Abs(n), d) IN [num |-> n \div g, den |-> d \div g]

(***************************************************************************)
(* GPTPassCallback.                                                        *)
(***************************************************************************)
Progressions == {"Automatic", "Combine"}
SamplesPerPassSet == {32, 64}
PassCaps == {5, 64}
Variances == {0, 1, 2, 5}

\* Constructor: m_max_passes = min(sample_budget / samples_per_pass, cap).
ComputeMaxPasses(sample_budget, samples_per_pass, max_passes) ==
    Min(sample_budget \div samples_per_pass, max_passes)

\* on_pass_begin line 93: std::min(size_t(1) << m_iter, m_remaining_passes)
PassesInIter(iter, remaining) == Min(Pow2(iter), remaining)

IsFinalIterMut(is_final, remaining, passes_left) ==
    is_final \/ SizeT(remaining - passes_left) <= 2 * passes_left

\* on_pass_begin line 95
IsFinalIter(is_final, remaining, passes_left) ==
    is_final \/ SizeT(remaining - passes_left) < SizeT(2 * passes_left)

NeedsBuildMut(var_increase, iter) == iter > 0

\* on_pass_begin line 102
NeedsBuild(var_increase, iter) == ~var_increase /\ iter > 0

BudgetExhaustedMut(rendered, max_passes) == rendered > max_passes

\* on_pass_end line 121, the budget half of the test
BudgetExhausted(rendered, max_passes) == rendered >= max_passes

\* on_pass_end lines 138-142
ExtrapolatedVariance(variance, num_passes_curr_iter, remaining) ==
    [num |-> variance * num_passes_curr_iter,
     den |-> SizeT(remaining + num_passes_curr_iter)]

VarianceIncreasedMut(progression, samples_rendered, current, last) ==
    /\ samples_rendered > MinSamplesForVarianceTest
    /\ FracGreater(current, last)

\* on_pass_end lines 150-151
VarianceIncreased(progression, samples_rendered, current, last) ==
    /\ progression = "Automatic"
    /\ samples_rendered > MinSamplesForVarianceTest
    /\ FracGreater(current, last)

\* image_to_buffer, lines 172-184: a ring of ImageBufferCapacity entries.
PushBounded(buffer, x) ==
    IF Len(buffer) = ImageBufferCapacity
    THEN Append(Tail(buffer), x)
    ELSE Append(buffer, x)

\* on_pass_end lines 127 and 157: 1.0f / variance, +infinity when the variance
\* is zero.
InverseVariance(variance) == [num |-> 1, den |-> variance]

IsInfinite(a) == a.den = 0 /\ a.num # 0

\* 0.0f / 0.0f and infinity / infinity
NotANumber == [num |-> 0, den |-> 0]

IsNotANumber(a) == a.den = 0 /\ a.num = 0

\* a + b on floats that are fractions, +infinity or not a number.
WeightPlus(a, b) ==
    IF IsNotANumber(a) \/ IsNotANumber(b) THEN NotANumber
    ELSE IF IsInfinite(a) \/ IsInfinite(b) THEN Infinity
    ELSE Frac(a.num * b.den + b.num * a.den, a.den * b.den)

\* a / b on the same floats, a >= 0 and b >= 0.
WeightOver(a, b) ==
    IF IsNotANumber(a) \/ IsNotANumber(b) THEN NotANumber
    ELSE IF IsInfinite(a) /\ IsInfinite(b) THEN NotANumber
    ELSE IF IsInfinite(b) THEN Frac(0, 1)
    ELSE IF IsInfinite(a) THEN Infinity
    ELSE IF b.num = 0
         THEN IF a.num = 0 THEN NotANumber ELSE Infinity
    ELSE Frac(a.num * b.den, a.den * b.num)

\* combine_iterations lines 188-193: the sum of the first n stashed weights.
RECURSIVE TotalInverseVariances(_, _)
TotalInverseVariances(inverse_variances, n) ==
    IF n = 0
    THEN Frac(0, 1)
    ELSE WeightPlus(TotalInverseVariances(inverse_variances, n - 1),
                   inverse_variances[n])

combine_iterationsMut(images, inverse_variances) ==
    [i \in 1..Len(images) |->
        [image |-> images[i], factor |-> inverse_variances[i]]]

\* combine_iterations lines 186-218.  All pixels are treated alike, so the
\* frame it writes is given by the factor each stashed image is scaled with.
combine_iterations(images, inverse_variances) ==
    LET total == TotalInverseVariances(inverse_variances,
                                       Len(inverse_variances))
    IN  [i \in 1..Len(images) |->
            [image |-> images[i],
             factor |-> WeightOver(inverse_variances[i], total)]]

PassInit ==
    /\ \E spp \in SamplesPerPassSet, n \in 0..MaxBudgetPasses,
          prog \in Progressions, cap \in PassCaps :
         /\ m_params = [iteration_progression |-> prog,
                        samples_per_pass |-> spp]
         /\ m_max_passes = ComputeMaxPasses(n * spp + (spp - 1), spp, cap)
    /\ m_remaining_passes = m_max_passes
    /\ m_passes_left_curr_iter = 0
    /\ m_num_passes_curr_iter = 0
    /\ m_passes_rendered = 0
    /\ m_last_extrapolated_variance = Infinity
    /\ m_iter = 0
    /\ m_is_final_iter = FALSE
    /\ m_var_increase = FALSE
    /\ m_image_buffer = <<>>
    /\ m_inverse_variance_buffer = <<>>
    /\ pc = "begin"
    /\ aborted = FALSE
    /\ finished = FALSE
    /\ fb_passes = 0
    /\ sd_final_calls = 0
    /\ sd_build_calls = 0
    /\ fb_clear_calls = 0
    /\ fb_frame = <<>>
    /\ last_call = "none"

hostVars == <<m_params, m_max_passes, aborted, finished>>

\* GPTPassCallback::on_pass_begin, lines 82-110.
on_pass_begin ==
    /\ pc = "begin"
    /\ pc' = "render"
    /\ IF m_passes_left_curr_iter > 0
       THEN /\ last_call' = "begin_same_iter"
            /\ UNCHANGED <<m_iter, m_passes_left_curr_iter,
                           m_num_passes_curr_iter, m_is_final_iter,
                           fb_passes, sd_final_calls, sd_build_calls,
                           fb_clear_calls>>
       ELSE LET in_iter == PassesInIter(m_iter, m_remaining_passes)
                final == IsFinalIter(m_is_final_iter, m_remaining_passes,
                                     in_iter)
                build == NeedsBuild(m_var_increase, m_iter)
            IN  /\ m_num_passes_curr_iter' = in_iter
                /\ m_passes_left_curr_iter' =
                       IF final THEN m_remaining_passes ELSE in_iter
                /\ m_is_final_iter' = final
                /\ sd_final_calls' =
                       IF final THEN sd_final_calls + 1 ELSE sd_final_calls
                /\ fb_passes' = IF build THEN 0 ELSE fb_passes
                /\ fb_clear_calls' =
                       IF build THEN fb_clear_calls + 1 ELSE fb_clear_calls
                /\ sd_build_calls' =
                       IF build THEN sd_build_calls + 1 ELSE sd_build_calls
                /\ m_iter' = m_iter + 1
                /\ last_call' = "begin_new_iter"
    /\ UNCHANGED <<hostVars, m_passes_rendered, m_remaining_passes,
                   m_last_extrapolated_variance, m_var_increase,
                   m_image_buffer, m_inverse_variance_buffer, fb_frame>>
    /\ UNCHANGED <<dtreeVars, threadVars, quadVars, auxVars>>

\* The host renders one pass into the framebuffer.
RenderPass ==
    /\ pc = "render"
    /\ pc' = "end"
    /\ fb_passes' = fb_passes + 1
    /\ last_call' = "render"
    /\ UNCHANGED <<hostVars, m_iter, m_passes_rendered,
                   m_passes_left_curr_iter, m_num_passes_curr_iter,
                   m_remaining_passes, m_last_extrapolated_variance,
                   m_is_final_iter, m_var_increase, m_image_buffer,
                   m_inverse_variance_buffer, sd_final_calls, sd_build_calls,
                   fb_clear_calls, fb_frame>>
    /\ UNCHANGED <<dtreeVars, threadVars, quadVars, auxVars>>

\* The user trips the abort switch while the run is in progress.
Abort ==
    /\ pc \in {"begin", "render", "end"}
    /\ ~aborted
    /\ aborted' = TRUE
    /\ UNCHANGED <<pc, m_params, m_max_passes, finished, m_iter,
                   m_passes_rendered, m_passes_left_curr_iter,
                   m_num_passes_curr_iter, m_remaining_passes,
                   m_last_extrapolated_variance, m_is_final_iter,
                   m_var_increase, m_image_buffer, m_inverse_variance_buffer,
                   fb_passes, sd_final_calls, sd_build_calls, fb_clear_calls,
                   fb_frame, last_call>>
    /\ UNCHANGED <<dtreeVars, threadVars, quadVars, auxVars>>

\* GPTPassCallback::on_pass_end, lines 112-164.  variance is what
\* m_framebuffer->estimator_variance() returns.  An image is identified by
\* the number of passes rendered when it was taken.
on_pass_end ==
    /\ pc = "end"
    /\ \E variance \in Variances :
        LET rendered == SizeT(m_passes_rendered + 1)
            left == SizeT(m_passes_left_curr_iter - 1)
            remaining == SizeT(m_remaining_passes - 1)
            combine == m_params.iteration_progression = "Combine"
            current == ExtrapolatedVariance(variance, m_num_passes_curr_iter,
                                            remaining)
            increased ==
                VarianceIncreased(m_params.iteration_progression,
                                  rendered * m_params.samples_per_pass,
                                  current, m_last_extrapolated_variance)
        IN  /\ m_passes_rendered' = rendered
            /\ m_passes_left_curr_iter' = left
            /\ m_remaining_passes' = remaining
            /\ IF BudgetExhausted(rendered, m_max_passes) \/ aborted
               THEN /\ finished' = TRUE
                    /\ pc' = "done"
                    /\ last_call' = "end_finished"
                    /\ IF combine
                       THEN /\ m_image_buffer' =
                                   PushBounded(m_image_buffer, rendered)
                            /\ m_inverse_variance_buffer' =
                                   PushBounded(m_inverse_variance_buffer,
                                               InverseVariance(variance))
                            /\ fb_frame' =
                                   combine_iterations(
                                       m_image_buffer',
                                       m_inverse_variance_buffer')
                       ELSE UNCHANGED <<m_image_buffer,
                                        m_inverse_variance_buffer, fb_frame>>
                    /\ UNCHANGED <<m_last_extrapolated_variance,
                                   m_is_final_iter, m_var_increase>>
               ELSE /\ finished' = FALSE
                    /\ pc' = "begin"
                    /\ IF left = 0
                       THEN /\ last_call' = "end_boundary"
                            /\ m_var_increase' = (m_var_increase \/ increased)
                            /\ m_is_final_iter' = (m_is_final_iter \/ increased)
                            /\ m_last_extrapolated_variance' = current
                            /\ IF combine
                               THEN /\ m_image_buffer' =
                                         PushBounded(m_image_buffer, rendered)
                                    /\ m_inverse_variance_buffer' =
                                         PushBounded(
                                             m_inverse_variance_buffer,
                                             InverseVariance(variance))
                               ELSE UNCHANGED <<m_image_buffer,
                                                m_inverse_variance_buffer>>
                            /\ UNCHANGED fb_frame
                       ELSE /\ last_call' = "end_mid_iter"
                            /\ UNCHANGED <<m_last_extrapolated_variance,
                                           m_is_final_iter, m_var_increase,
                                           m_image_buffer,
                                           m_inverse_variance_buffer,
                                           fb_frame>>
    /\ UNCHANGED <<m_params, m_max_passes, aborted, m_iter,
                   m_num_passes_curr_iter, fb_passes, sd_final_calls,
                   sd_build_calls, fb_clear_calls>>
    /\ UNCHANGED <<dtreeVars, threadVars, quadVars, auxVars>>

(***************************************************************************)
(* QuadTreeNode.  A quadtree is a function from paths to nodes; the path   *)
(* of a node is the sequence of child slots that leads to it from the     *)
(* root, and a node owns the child at path p \o <<c>> exactly when that   *)
(* path is in the domain.  Radiance sums are kept in units small enough   *)
(* that 0.25f * sum is exact, as it is on floats.                          *)
(***************************************************************************)
\* sdtree.cpp:61
DTreeMaxDepth == 20

\* sdtree.cpp:60, 0.01f
DTreeThreshold == [num |-> 1, den |-> 100]

\* sdtree.cpp:62, 0.1f and sdtree.cpp:63, 0.7f
DTreeGlossyAreaFraction == [num |-> 1, den |-> 10]
DTreeGlossyEnergyThreshold == [num |-> 7, den |-> 10]

\* Depth of the root: restructure and depth() count a lone node as depth 1.
RootDepth == 1

\* Child slots, in the order the code visits them.
UpperLeft == 0
UpperRight == 1
LowerRight == 2
LowerLeft == 3
ChildSlots == <<UpperLeft, UpperRight, LowerRight, LowerLeft>>

\* A cylindrical direction is a pair of fixed point coordinates in
\* [0, DirRes), standing for x / DirRes in [0, 1).
DirRes == Pow2(DTreeMaxDepth - 1)

\* One unit of recorded radiance, in the units of the radiance sums.
RadianceUnit == 256

\* A sample weight of 1.0f, in the units of the sample weights; halving a
\* sum of whole weights three times over stays exact.
WeightUnit == 8

Node(is_leaf, current_sum, previous_sum) ==
    [is_leaf |-> is_leaf, current_sum |-> current_sum,
     previous_sum |-> previous_sum]

ChildPath(p, c) == Append(p, c)
ChildPaths(p) == {ChildPath(p, ChildSlots[k]) : k \in 1..4}
NodeDepth(p) == Len(p) + RootDepth

\* QuadTreeNode::QuadTreeNode(create_children, radiance_sum), at path p.
QuadTreeNodeNew(p, create_children, radiance_sum) ==
    (p :> Node(~create_children, radiance_sum, radiance_sum))
    @@ [c \in (IF create_children THEN ChildPaths(p) ELSE {}) |->
            Node(TRUE, 0, 0)]

\* QuadTreeNode::choose_node: the child slot and the renormalised direction.
choose_node(direction) ==
    LET half == DirRes \div 2
        left == direction.x < half
        up == direction.y < half
    IN  [child |-> IF left THEN (IF up THEN UpperLeft ELSE LowerLeft)
                   ELSE (IF up THEN UpperRight ELSE LowerRight),
         direction |-> [x |-> IF left THEN direction.x * 2
                              ELSE direction.x * 2 - DirRes,
                        y |-> IF up THEN direction.y * 2
                              ELSE direction.y * 2 - DirRes]]

\* The leaf add_radiance(direction, radiance) descends to, from node p.
RECURSIVE LeafOf(_, _, _)
LeafOf(tree, p, direction) ==
    IF tree[p].is_leaf
    THEN p
    ELSE LET c == choose_node(direction)
         IN  LeafOf(tree, ChildPath(p, c.child), c.direction)

\* QuadTreeNode::depth(direction)
RECURSIVE depth(_, _, _)
depth(tree, p, direction) ==
    IF tree[p].is_leaf
    THEN 1
    ELSE LET c == choose_node(direction)
         IN  1 + depth(tree, ChildPath(p, c.child), c.direction)

add_radiancePreviousMut(tree, direction, radiance) ==
    [tree EXCEPT ![LeafOf(tree, <<>>, direction)].previous_sum = @ + radiance]

\* QuadTreeNode::add_radiance(direction, radiance), the atomic add taken
\* as one step.
add_radiance(tree, direction, radiance) ==
    [tree EXCEPT ![LeafOf(tree, <<>>, direction)].current_sum = @ + radiance]

\* The value QuadTreeNode::build_radiance_sums returns for node p.
RECURSIVE BuiltSum(_, _)
BuiltSum(tree, p) ==
    IF tree[p].is_leaf
    THEN tree[p].current_sum
    ELSE 0 + BuiltSum(tree, ChildPath(p, UpperLeft))
           + BuiltSum(tree, ChildPath(p, UpperRight))
           + BuiltSum(tree, ChildPath(p, LowerRight))
           + BuiltSum(tree, ChildPath(p, LowerLeft))

\* QuadTreeNode::build_radiance_sums on the whole tree.
build_radiance_sums(tree) ==
    [p \in DOMAIN tree |-> [tree[p] EXCEPT !.previous_sum = BuiltSum(tree, p)]]

SubdivCriterionMut(previous_sum, total, tau, node_depth) ==
    /\ previous_sum * tau.den > tau.num * total
    /\ node_depth <= DTreeMaxDepth

\* restructure line 273: fraction > subdiv_threshold && depth < DTreeMaxDepth
SubdivCriterion(previous_sum, total, tau, node_depth) ==
    /\ previous_sum * tau.den > tau.num * total
    /\ node_depth < DTreeMaxDepth

QuarterSumMut(previous_sum) == previous_sum \div 8

\* restructure line 279: 0.25f * m_previous_iter_radiance_sum
QuarterSum(previous_sum) == previous_sum \div 4

\* QuadTreeNode::restructure on the node n at path p; children(c) is the
\* node in child slot c when n is internal.  Yields the subtree that is
\* left at p.
RECURSIVE RestructureNode(_, _, _, _, _)
RestructureNode(tree, p, n, total, tau) ==
    IF SubdivCriterion(n.previous_sum, total, tau, NodeDepth(p))
    THEN LET quarter_sum == QuarterSum(n.previous_sum)
             child(c) == IF n.is_leaf
                         THEN Node(TRUE, quarter_sum, quarter_sum)
                         ELSE tree[ChildPath(p, c)]
             sub(c) == RestructureNode(tree, ChildPath(p, c), child(c),
                                       total, tau)
         IN  (p :> Node(FALSE, 0, n.previous_sum))
             @@ sub(UpperLeft) @@ sub(UpperRight)
             @@ sub(LowerRight) @@ sub(LowerLeft)
    ELSE (p :> Node(TRUE, 0, n.previous_sum))

restructure(tree, total, tau) ==
    RestructureNode(tree, <<>>, tree[<<>>], total, tau)

\* QuadTreeNode::reset
reset(tree) == QuadTreeNodeNew(<<>>, TRUE, 0)

(***************************************************************************)
(* Energy ratios and the scattering mode of DTree::restructure.  Areas are *)
(* kept in units of 4^-15; smaller areas round to 0.                       *)
(***************************************************************************)
RECURSIVE Pow4(_)
Pow4(n) == IF n = 0 THEN 1 ELSE 4 * Pow4(n - 1)

AreaPrecision == 15
AreaUnit == Pow4(AreaPrecision)

\* restructure line 306: pow(0.25f, depth - 1)
RatioArea(node_depth) ==
    IF node_depth - 1 > AreaPrecision
    THEN 0
    ELSE Pow4(AreaPrecision - (node_depth - 1))

\* restructure lines 303-311: the internal nodes whose upper left child is
\* a leaf each contribute one pair.
RatioNodes(tree) ==
    {p \in DOMAIN tree :
        ~tree[p].is_leaf /\ tree[ChildPath(p, UpperLeft)].is_leaf}

RatioEnergy(tree, p) == 4 * tree[ChildPath(p, UpperLeft)].previous_sum

\* The first element of the sorted list (std::pair operator< on
\* (area, energy); all energies share one total): the deepest nodes have
\* the smallest area, and among them the least energy comes first.
FirstRatio(tree, rest) ==
    LET depths == {NodeDepth(p) : p \in rest}
        deepest == CHOOSE d \in depths : \A e \in depths : e <= d
        smallest == {p \in rest : RatioArea(NodeDepth(p)) = RatioArea(deepest)}
        energies == {RatioEnergy(tree, p) : p \in smallest}
        least == CHOOSE x \in energies : \A y \in energies : x <= y
    IN  CHOOSE p \in smallest : RatioEnergy(tree, p) = least

\* The elements of the sorted list that compare equal to its first one.
EqualRatios(tree, rest, itr) ==
    {p \in rest : /\ RatioArea(NodeDepth(p)) = RatioArea(NodeDepth(itr))
                  /\ RatioEnergy(tree, p) = RatioEnergy(tree, itr)}

\* DTree::restructure lines 1271-1290, walking the sorted list.  A run of n
\* equal pairs is walked in one step: after j of them the sums have grown
\* by j times the pair, and the loop ends at the first j at which one of
\* its two tests does, the area test coming first.
RECURSIVE IsGlossy(_, _, _, _, _)
IsGlossy(tree, total, rest, area_fraction_sum, energy_sum) ==
    IF rest = {}
    THEN FALSE
    ELSE LET itr == FirstRatio(tree, rest)
             equal == EqualRatios(tree, rest, itr)
             area(j) == area_fraction_sum + j * RatioArea(NodeDepth(itr))
             energy(j) == energy_sum + j * RatioEnergy(tree, itr)
             \* area < 0.1; a tenth of AreaUnit is not a whole number
             too_wide(j) ==
                 ~(area(j) <= (DTreeGlossyAreaFraction.num * AreaUnit)
                                  \div DTreeGlossyAreaFraction.den)
             enough(j) == energy(j) * DTreeGlossyEnergyThreshold.den
                              > DTreeGlossyEnergyThreshold.num * total
             ends == {j \in 1..Cardinality(equal) : too_wide(j) \/ enough(j)}
         IN  IF ends # {}
             THEN ~too_wide(CHOOSE j \in ends : \A i \in ends : j <= i)
             ELSE IsGlossy(tree, total, rest \ equal,
                           area(Cardinality(equal)),
                           energy(Cardinality(equal)))

(***************************************************************************)
(* The Adam optimiser of the sampling fraction, in fixed point with three  *)
(* decimals: a float x is the integer x * Scale.                           *)
(***************************************************************************)
Scale == 1000

\* sdtree.cpp:67-70; OptimizationEpsilon = 1e-8f is below the resolution of
\* the fixed point and adds nothing to a denominator.
Beta1 == 900
Beta2 == 999
OptimizationEpsilon == 0
Regularization == 10

\* DTree::adam_step line 1435
ThetaMin == -20000
ThetaMax == 20000

\* Division of floats does not floor: round towards zero.
Div(a, b) == IF a >= 0 THEN a \div b ELSE -((-a) \div b)

RECURSIVE SqrtSearch(_, _, _)
SqrtSearch(n, lo, hi) ==
    IF lo >= hi
    THEN lo
    ELSE LET mid == (lo + hi + 1) \div 2
         IN  IF mid * mid <= n
             THEN SqrtSearch(n, mid, hi)
             ELSE SqrtSearch(n, lo, mid - 1)

\* std::sqrt on fixed point values.
Sqrt(x) == SqrtSearch(x * Scale, 0, 46000)

\* std::pow(base, count) for a base in [0, 1].
RECURSIVE Pow(_, _)
Pow(base, count) ==
    IF count = 0 THEN Scale ELSE Div(base * Pow(base, count - 1), Scale)

\* logistic(x) = 1 / (1 + exp(-x)), tabulated at the integers and
\* interpolated linearly; it saturates to 1.0f as floats do.
LogisticTable == <<500, 731, 881, 953, 982, 993, 998, 999, 1000>>

LogisticPos(x) ==
    LET k == x \div Scale
        r == x % Scale
    IN  IF k + 2 > Len(LogisticTable)
        THEN Scale
        ELSE LogisticTable[k + 1]
             + ((LogisticTable[k + 2] - LogisticTable[k + 1]) * r) \div Scale

logistic(x) == IF x >= 0 THEN LogisticPos(x) ELSE Scale - LogisticPos(-x)

BsdfSamplingFractionModes == {"Learn", "Fixed"}

\* DTree::bsdf_sampling_fraction, lines 1377-1383
bsdf_sampling_fraction(params, theta) ==
    IF params.bsdf_sampling_fraction_mode = "Learn"
    THEN logistic(theta)
    ELSE params.fixed_bsdf_sampling_fraction

\* DTree::optimization_step lines 1406-1416: the gradient of one record.
Gradient(params, theta, rec) ==
    LET sampling_fraction == bsdf_sampling_fraction(params, theta)
        combined_pdf == sampling_fraction * rec.bsdf_pdf
                        + (Scale - sampling_fraction) * rec.d_tree_pdf
        d_sampling_fraction ==
            Div(-rec.product * (rec.bsdf_pdf - rec.d_tree_pdf) * Scale * Scale,
                rec.wi_pdf * combined_pdf)
        d_theta == Div(Div(d_sampling_fraction * sampling_fraction, Scale)
                         * (Scale - sampling_fraction), Scale)
        reg_gradient == Div(theta * Regularization, Scale)
    IN  Div((d_theta + reg_gradient) * rec.sample_weight, WeightUnit)

AdamUpdateMut(params, adam, gradient) ==
    LET count == adam.count + 1
        debiased_learning_rate ==
            Div(params.learning_rate * Sqrt(Scale - Pow(Beta2, count)),
                Scale - Pow(Beta1, count))
        first == Div(Beta1 * adam.first - (Scale - Beta1) * gradient, Scale)
        second == Div(Beta2 * adam.second
                        + (Scale - Beta2) * Div(gradient * gradient, Scale),
                      Scale)
        denom == Sqrt(second) + OptimizationEpsilon
    IN  [count |-> count, first |-> first, second |-> second,
         theta |-> adam.theta
                   - Div(debiased_learning_rate * first,
                         IF denom = 0 THEN 1 ELSE denom)]

\* DTree::adam_step lines 1426-1433, before the clamp.
AdamUpdate(params, adam, gradient) ==
    LET count == adam.count + 1
        debiased_learning_rate ==
            Div(params.learning_rate * Sqrt(Scale - Pow(Beta2, count)),
                Scale - Pow(Beta1, count))
        first == Div(Beta1 * adam.first + (Scale - Beta1) * gradient, Scale)
        second == Div(Beta2 * adam.second
                        + (Scale - Beta2) * Div(gradient * gradient, Scale),
                      Scale)
        denom == Sqrt(second) + OptimizationEpsilon
    IN  [count |-> count, first |-> first, second |-> second,
         theta |-> adam.theta
                   - Div(debiased_learning_rate * first,
                         IF denom = 0 THEN 1 ELSE denom)]

ClampMut(x, lo, hi) == IF x < lo THEN lo ELSE x

\* foundation::clamp
Clamp(x, lo, hi) == IF x < lo THEN lo ELSE IF x > hi THEN hi ELSE x

\* DTree::adam_step, whole.
adam_step(params, adam, gradient) ==
    [AdamUpdate(params, adam, gradient) EXCEPT
        !.theta = Clamp(@, ThetaMin, ThetaMax)]

\* The Adam members of a DTree.
AdamState(d) ==
    [count |-> d.m_optimization_step_count, first |-> d.m_first_moment,
     second |-> d.m_second_moment, theta |-> d.m_theta]

SetAdamState(d, adam) ==
    [d EXCEPT !.m_optimization_step_count = adam.count,
              !.m_first_moment = adam.first,
              !.m_second_moment = adam.second,
              !.m_theta = adam.theta]

WantsOptimizationMut(params, is_built, rec) ==
    /\ params.bsdf_sampling_fraction_mode = "Learn"
    /\ is_built
    /\ rec.product > 0
    /\ ~rec.is_delta

\* DTree::record line 1127
WantsOptimization(params, is_built, rec) ==
    /\ params.bsdf_sampling_fraction_mode = "Learn"
    /\ is_built
    /\ rec.product > 0

IsSkippedMut(rec) == rec.wi_pdf <= 0

\* DTree::record line 1130
IsSkipped(rec) == rec.is_delta \/ rec.wi_pdf <= 0

\* DTree::record line 1135
WeightedRadiance(rec) ==
    ((rec.radiance \div rec.wi_pdf) * rec.sample_weight) \div WeightUnit

(***************************************************************************)
(* Boxes (AABB2f, AABB3f) and the Box directional filter.  A coordinate of *)
(* a box counts halves of a coordinate unit, so that a point plus or minus *)
(* half a size is a whole number; a half size below that resolution is     *)
(* lost in the sum, as 0.5f * leaf_size is lost in a float coordinate of   *)
(* 24 bits.                                                                *)
(***************************************************************************)
BoxUnit == 2

AABB(min, max) == [min |-> min, max |-> max]

\* AABB::is_valid
is_valid(aabb) == \A i \in DOMAIN aabb.min : aabb.min[i] <= aabb.max[i]

\* AABB::intersect
intersect(a, b) ==
    AABB([i \in DOMAIN a.min |-> Max(a.min[i], b.min[i])],
         [i \in DOMAIN a.max |-> Min(a.max[i], b.max[i])])

\* AABB::extent
extent(aabb) == [i \in DOMAIN aabb.min |-> aabb.max[i] - aabb.min[i]]

\* AABB::volume() > 0 of a valid box: the product of the extents, none of
\* which is negative.
PositiveVolume(aabb) == \A i \in DOMAIN aabb.min : extent(aabb)[i] > 0

\* The quotient inner.volume() / outer.volume() of two boxes, inner within
\* outer and outer.volume() > 0, in units of 1 / FractionUnit; it is taken
\* axis by axis, each axis to ten bits.
FractionUnit == 1024

RECURSIVE VolumeFractionUpTo(_, _, _)
VolumeFractionUpTo(inner, outer, i) ==
    IF i = 0
    THEN FractionUnit
    ELSE Div(VolumeFractionUpTo(inner, outer, i - 1)
                 * Div(extent(inner)[i] * FractionUnit, extent(outer)[i]),
             FractionUnit)

VolumeFraction(inner, outer) ==
    VolumeFractionUpTo(inner, outer, Len(inner.min))

\* DTree::record line 1150: the unit square of directions.
NodeBox == AABB(<<0, 0>>, <<BoxUnit * DirRes, BoxUnit * DirRes>>)

\* add_radiance lines 199-209: the box of the child in slot c of a node
\* with the box node_aabb.
ChildBox(node_aabb, c) ==
    LET half == extent(node_aabb)[1] \div 2
        dx == IF c \in {UpperRight, LowerRight} THEN half ELSE 0
        dy == IF c \in {LowerRight, LowerLeft} THEN half ELSE 0
        corner == <<node_aabb.min[1] + dx, node_aabb.min[2] + dy>>
    IN  AABB(corner, <<corner[1] + half, corner[2] + half>>)

\* QuadTreeNode::add_radiance(splat_aabb, node_aabb, radiance) on the node
\* at path p, lines 178-210; radiance is the radiance and the splat whose
\* volume line 1156 divides it by, the quotient being taken when it is
\* multiplied.
RECURSIVE add_radiance_box(_, _, _, _, _)
add_radiance_box(tree, p, splat_aabb, node_aabb, radiance) ==
    LET intersection_aabb == intersect(splat_aabb, node_aabb)
        into(t, c) == add_radiance_box(t, ChildPath(p, c), splat_aabb,
                                       ChildBox(node_aabb, c), radiance)
    IN  IF ~is_valid(intersection_aabb) THEN tree
        ELSE IF ~PositiveVolume(intersection_aabb) THEN tree
        ELSE IF tree[p].is_leaf
        THEN [tree EXCEPT ![p].current_sum =
                 @ + Div(radiance.num
                           * VolumeFraction(intersection_aabb, radiance.splat),
                         FractionUnit)]
        ELSE LET upper_left == into(tree, UpperLeft)
                 upper_right == into(upper_left, UpperRight)
                 lower_right == into(upper_right, LowerRight)
             IN  into(lower_right, LowerLeft)

\* DTree::record line 1149: pow(0.25f, leaf_depth - 1)
LeafSize(leaf_depth) == (BoxUnit * DirRes) \div Pow4(leaf_depth - 1)

\* DTree::record line 1151: the box direction -+ 0.5f * leaf_size
SplatBox(tree, direction) ==
    LET half == LeafSize(depth(tree, <<>>, direction)) \div 2
        at == <<BoxUnit * direction.x, BoxUnit * direction.y>>
    IN  AABB(<<at[1] - half, at[2] - half>>, <<at[1] + half, at[2] + half>>)

(***************************************************************************)
(* DTree, its operations taken one call at a time.                         *)
(***************************************************************************)
\* DTree::DTree(parameters), lines 1092-1106
DTreeNew ==
    [m_root_node |-> QuadTreeNodeNew(<<>>, TRUE, 0),
     m_current_iter_sample_weight |-> 0,
     m_previous_iter_sample_weight |-> 0,
     m_optimization_step_count |-> 0,
     m_first_moment |-> 0,
     m_second_moment |-> 0,
     m_theta |-> 0,
     m_is_built |-> FALSE,
     m_scattering_mode |-> "Diffuse",
     m_atomic_flag |-> FALSE]

\* DTree::optimization_step, lines 1401-1421; the lock is taken and
\* released within the call.
optimization_step(params, d, rec) ==
    SetAdamState(d, adam_step(params, AdamState(d),
                              Gradient(params, d.m_theta, rec)))

\* DTree::record, lines 1130-1161, with the Nearest directional filter.
accumulate(d, rec) ==
    IF IsSkipped(rec)
    THEN d
    ELSE [d EXCEPT
            !.m_current_iter_sample_weight = @ + rec.sample_weight,
            !.m_root_node =
                add_radiance(@, rec.direction, WeightedRadiance(rec))]

SkipsBadSplatMut(splat_aabb) == ~is_valid(splat_aabb) \/ ~PositiveVolume(splat_aabb)

\* DTree::record line 1153
SkipsBadSplat(splat_aabb) == ~is_valid(splat_aabb)

\* DTree::record, lines 1130-1161, with the Box directional filter: the
\* weight is added at line 1133, before the splat is looked at.
accumulate_box(d, rec) ==
    IF IsSkipped(rec)
    THEN d
    ELSE LET weighted == [d EXCEPT !.m_current_iter_sample_weight =
                                       @ + rec.sample_weight]
             splat_aabb == SplatBox(d.m_root_node, rec.direction)
         IN  IF SkipsBadSplat(splat_aabb)
             THEN weighted
             ELSE [weighted EXCEPT !.m_root_node =
                      add_radiance_box(@, <<>>, splat_aabb, NodeBox,
                                       [num |-> WeightedRadiance(rec),
                                        splat |-> splat_aabb])]

\* DTree::record, lines 1124-1162, whole.
record(params, d, rec) ==
    LET stepped == IF WantsOptimization(params, d.m_is_built, rec)
                   THEN optimization_step(params, d, rec)
                   ELSE d
    IN  IF params.directional_filter = "Box"
        THEN accumulate_box(stepped, rec)
        ELSE accumulate(stepped, rec)

\* DTree::build, lines 1235-1239
build(d) ==
    [d EXCEPT
        !.m_previous_iter_sample_weight = d.m_current_iter_sample_weight,
        !.m_root_node = build_radiance_sums(@)]

DTreeRestructureMut(params, d, subdiv_threshold) ==
    LET radiance_sum == d.m_root_node[<<>>].previous_sum
        d0 == [d EXCEPT !.m_is_built = TRUE]
    IN  IF radiance_sum <= 0
        THEN [d0 EXCEPT !.m_root_node = reset(@),
                        !.m_scattering_mode = "Diffuse"]
        ELSE [d0 EXCEPT !.m_root_node =
                            restructure(@, radiance_sum, subdiv_threshold)]

\* DTree::restructure, lines 1241-1297 (the radiance proxy is not part of
\* this state).
DTreeRestructure(params, d, subdiv_threshold) ==
    LET radiance_sum == d.m_root_node[<<>>].previous_sum
        d0 == [d EXCEPT !.m_is_built = TRUE,
                        !.m_current_iter_sample_weight = 0]
    IN  IF radiance_sum <= 0
        THEN [d0 EXCEPT !.m_root_node = reset(@),
                        !.m_scattering_mode = "Diffuse",
                        !.m_optimization_step_count = 0,
                        !.m_first_moment = 0,
                        !.m_second_moment = 0,
                        !.m_theta = 0]
        ELSE LET root == restructure(d.m_root_node, radiance_sum,
                                     subdiv_threshold)
             IN  [d0 EXCEPT
                    !.m_root_node = root,
                    !.m_scattering_mode =
                        IF params.guided_bounce_mode = "Learn"
                        THEN IF IsGlossy(root, radiance_sum,
                                         RatioNodes(root), 0, 0)
                             THEN "Glossy" ELSE "Diffuse"
                        ELSE @]

(***************************************************************************)
(* QuadSpec: one DTree through passes of records, each closed by build and *)
(* restructure as STree::build runs them.                                  *)
(***************************************************************************)
MaxRecordsPerPass == 2
MaxCycles == 1

\* Cycles of one concentrated record a DTree may have been through before
\* the run that is explored.
TrainedCycles == 4

GuidedBounceModes == {"Learn", "StrictlyDiffuse"}

DirA == [x |-> 0, y |-> 0]
DirB == [x |-> DirRes - 1, y |-> DirRes - 1]

MakeRecord(direction, radiance, wi_pdf, bsdf_pdf, d_tree_pdf, product, is_delta) ==
    [direction |-> direction, radiance |-> radiance, wi_pdf |-> wi_pdf,
     bsdf_pdf |-> bsdf_pdf, d_tree_pdf |-> d_tree_pdf, sample_weight |-> WeightUnit,
     product |-> product, is_delta |-> is_delta]

\* The records fed to the tree: plain ones in two directions, a delta
\* record and one with a zero pdf.  A record with product > 0 carries
\* positive pdfs, as the guided sampler produces them.
RecPlainA == MakeRecord(DirA, 2 * RadianceUnit, 2, 1, 3, 0, FALSE)
RecPlainB == MakeRecord(DirB, RadianceUnit, 1, 1, 3, 1, FALSE)
RecDelta == MakeRecord(DirA, 5 * RadianceUnit, 1, 3, 1, 1, TRUE)
RecZeroPdf == MakeRecord(DirB, RadianceUnit, 0, 1, 1, 0, FALSE)
Records == {RecPlainA, RecPlainB, RecDelta, RecZeroPdf}

\* A vertex that received no radiance.
RecDark == MakeRecord(DirA, 0, 1, 1, 3, 0, FALSE)

MakeParams(bsdf_sampling_fraction_mode, guided_bounce_mode) ==
    [bsdf_sampling_fraction_mode |-> bsdf_sampling_fraction_mode,
     fixed_bsdf_sampling_fraction |-> 500,
     guided_bounce_mode |-> guided_bounce_mode,
     directional_filter |-> "Nearest",
     spatial_filter |-> "Nearest",
     learning_rate |-> 10]

ParamsSet == {MakeParams("Learn", "Learn"),
              MakeParams("Fixed", "StrictlyDiffuse")}

\* One whole training cycle with a single record.
Cycle(params, d, rec) ==
    DTreeRestructure(params, build(record(params, d, rec)), DTreeThreshold)

RECURSIVE Cycles(_, _, _, _)
Cycles(params, d, rec, k) ==
    IF k = 0 THEN d ELSE Cycles(params, Cycle(params, d, rec), rec, k - 1)

QuadInit ==
    /\ d_params \in ParamsSet
    /\ d_tree \in {DTreeNew, Cycles(d_params, DTreeNew, RecPlainA,
                                    TrainedCycles)}
    /\ q_phase = "accumulate"
    /\ q_records = 0
    /\ q_cycles = 0
    /\ q_last = [op |-> "none"]

\* History of a restructure: the leaves it split and the internal nodes it
\* collapsed.
SplitNodes(before, after) ==
    {p \in DOMAIN before \cap DOMAIN after :
        before[p].is_leaf /\ ~after[p].is_leaf}

CollapsedNodes(before, after) ==
    {p \in DOMAIN before \cap DOMAIN after :
        ~before[p].is_leaf /\ after[p].is_leaf}

\* A path is recorded into the DTree.
QRecord ==
    /\ q_phase = "accumulate"
    /\ q_records < MaxRecordsPerPass
    /\ \E rec \in Records :
        /\ d_tree' = record(d_params, d_tree, rec)
        /\ q_last' = [op |-> "record", rec |-> rec]
    /\ q_records' = q_records + 1
    /\ UNCHANGED <<d_params, q_phase, q_cycles>>
    /\ UNCHANGED <<passVars, threadVars, auxVars>>

\* STree::build, first half: STreeNode::build -> DTree::build.
QBuild ==
    /\ q_phase = "accumulate"
    /\ q_cycles < MaxCycles
    /\ d_tree' = build(d_tree)
    /\ q_phase' = "built"
    /\ q_cycles' = q_cycles + 1
    /\ q_last' = [op |-> "build"]
    /\ UNCHANGED <<d_params, q_records>>
    /\ UNCHANGED <<passVars, threadVars, auxVars>>

\* STree::build, second half: the RestructureJob of this DTree.
QRestructure ==
    /\ q_phase = "built"
    /\ d_tree' = DTreeRestructure(d_params, d_tree, DTreeThreshold)
    /\ q_phase' = "accumulate"
    /\ q_records' = 0
    /\ q_last' =
          [op |-> IF d_tree.m_root_node[<<>>].previous_sum <= 0
                  THEN "reset" ELSE "restructure",
           split |-> SplitNodes(d_tree.m_root_node, d_tree'.m_root_node),
           collapsed |-> CollapsedNodes(d_tree.m_root_node,
                                        d_tree'.m_root_node)]
    /\ UNCHANGED <<d_params, q_cycles>>
    /\ UNCHANGED <<passVars, threadVars, auxVars>>

QuadNext ==
    \/ QRecord
    \/ QBuild
    \/ QRestructure

(***************************************************************************)
(* ProxySpec: one DTree with its RadianceProxy over several passes, and    *)
(* the samplers that copy the proxy.                                       *)
(***************************************************************************)
MaxProxyPasses == 3
MaxProxyRecords == 1

ProxyRecords == {RecPlainA, RecPlainB, RecDark}

\* A RadianceProxy that was not built from mip maps.
RadianceProxyNew == [is_built |-> FALSE]

\* DTree::build_radiance_map, lines 1312-1360, with QuadTreeNode::
\* build_radiance_map, lines 530-592: the finest mip map, given by the
\* leaves that fill its pixels.  The value of a leaf at level Len(p) + 1
\* is 4^Len(p) * sum / (4 pi * weight); its three factors are kept apart.
build_radiance_map(d) ==
    IF d.m_previous_iter_sample_weight <= 0
          \/ d.m_root_node[<<>>].previous_sum <= 0
    THEN <<>> :> [level |-> 0, sum |-> 0, weight |-> 1]
    ELSE [p \in {q \in DOMAIN d.m_root_node : d.m_root_node[q].is_leaf} |->
            [level |-> Len(p),
             sum |-> d.m_root_node[p].previous_sum,
             weight |-> d.m_previous_iter_sample_weight]]

\* DTree::build_equal_area_maps, lines 1361-1365: the proxy constructed
\* from the mip maps.
build_equal_area_maps(mip_maps) == [is_built |-> TRUE, map |-> mip_maps]

\* DTree::restructure, lines 1241-1297, as far as m_radiance_proxy goes:
\* the return at line 1259 leaves it as it is, lines 1294-1295 replace it.
RestructureProxy(proxy, built, restructured) ==
    IF built.m_root_node[<<>>].previous_sum <= 0
    THEN proxy
    ELSE build_equal_area_maps(build_radiance_map(restructured))

ProxyInit ==
    /\ d_params \in ParamsSet
    /\ d_tree = DTreeNew
    /\ px_proxy = RadianceProxyNew
    /\ px_sampler = RadianceProxyNew
    /\ q_phase = "accumulate"
    /\ q_records = 0
    /\ q_cycles = 0
    /\ q_last = [op |-> "none"]

\* DTree::record during a pass.
ProxyRecord ==
    /\ q_records < MaxProxyRecords
    /\ q_cycles < MaxProxyPasses
    /\ \E rec \in ProxyRecords :
        /\ d_tree' = record(d_params, d_tree, rec)
        /\ q_last' = [op |-> "record", rec |-> rec]
    /\ q_records' = q_records + 1
    /\ UNCHANGED <<d_params, q_phase, q_cycles, px_proxy, px_sampler>>
    /\ UNCHANGED <<passVars, threadVars, streeVars, sampleVars, adamVars, pathVars, guidedVars, jobVars, rootVars>>

\* STree::build for this DTree: DTree::build, then DTree::restructure.
ProxyBuild ==
    /\ q_cycles < MaxProxyPasses
    /\ LET built == build(d_tree)
           restructured == DTreeRestructure(d_params, built, DTreeThreshold)
       IN  /\ d_tree' = restructured
           /\ px_proxy' = RestructureProxy(px_proxy, built, restructured)
           /\ q_last' = [op |-> IF built.m_root_node[<<>>].previous_sum <= 0
                                THEN "reset" ELSE "restructure"]
    /\ q_records' = 0
    /\ q_cycles' = q_cycles + 1
    /\ UNCHANGED <<d_params, q_phase, px_sampler>>
    /\ UNCHANGED <<passVars, threadVars, streeVars, sampleVars, adamVars, pathVars, guidedVars, jobVars, rootVars>>

\* PathGuidedSampler::PathGuidedSampler, pathguidedsampler.cpp lines 28-50,
\* for this DTree: the sampler copies the proxy that get_radiance_proxy
\* returns.
ProxySampler ==
    /\ q_last.op # "sampler"
    /\ px_sampler' = px_proxy
    /\ q_last' = [op |-> "sampler"]
    /\ UNCHANGED <<d_params, d_tree, q_phase, q_records, q_cycles, px_proxy>>
    /\ UNCHANGED <<passVars, threadVars, streeVars, sampleVars, adamVars, pathVars, guidedVars, jobVars, rootVars>>

ProxyNext ==
    \/ ProxyRecord
    \/ ProxyBuild
    \/ ProxySampler

(***************************************************************************)
(* RecSpec: worker threads inside DTree::record on one DTree during a      *)
(* pass, and a thread that constructs a PathGuidedSampler for the same     *)
(* DTree.  Every read and write of shared memory is a step of its own.     *)
(***************************************************************************)
NumThreads == 2

Threads == 1..NumThreads

\* The thread that constructs the sampler.
SamplerThread == 0

ThreadRecords == {RecPlainA, RecPlainB, RecDelta}

\* The pass begins on a fresh DTree, or goes on in a built one that already
\* holds a record.
RecInit ==
    /\ d_params \in ParamsSet
    /\ d_tree \in {DTreeNew,
                   record(d_params, Cycle(d_params, DTreeNew, RecPlainA),
                          RecPlainB)}
    /\ t_before = d_tree
    /\ t_rec \in [Threads -> ThreadRecords]
    /\ t_pc = [t \in Threads |-> "record"]
    /\ t_current = [t \in Threads |-> 0]
    /\ s_pc = "construct"
    /\ s_fraction = 0
    /\ lock_owner = 0
    /\ unlocked_access = {}

\* What a touch of the Adam members adds to the history when the toucher
\* does not hold the lock.
AdamAccess(thread, kind) ==
    IF lock_owner = thread
    THEN unlocked_access
    ELSE unlocked_access
         \cup {[thread |-> thread, kind |-> kind, holder |-> lock_owner]}

CasSucceedsMut(current, actual) == TRUE

\* compare_exchange_weak(current, desired) stores only when the atomic still
\* holds current (line 80).
CasSucceeds(current, actual) == current = actual

\* DTree::record line 1127: the test that guards optimization_step.
RecordBegin(t) ==
    /\ t_pc[t] = "record"
    /\ t_pc' = [t_pc EXCEPT ![t] =
                  IF WantsOptimization(d_params, d_tree.m_is_built, t_rec[t])
                  THEN "acquire" ELSE "filter"]
    /\ UNCHANGED <<d_params, d_tree, t_rec, t_current, s_pc, s_fraction,
                   t_before, lock_owner, unlocked_access>>
    /\ UNCHANGED <<passVars, quadVars, auxVars>>

\* acquire_optimization_spin_lock: a test_and_set that finds the flag clear.
\* One that finds it set changes nothing and is tried again.
Acquire(t) ==
    /\ t_pc[t] = "acquire"
    /\ ~d_tree.m_atomic_flag
    /\ d_tree' = [d_tree EXCEPT !.m_atomic_flag = TRUE]
    /\ lock_owner' = t
    /\ t_pc' = [t_pc EXCEPT ![t] = "adam_update"]
    /\ UNCHANGED <<d_params, t_rec, t_current, s_pc, s_fraction, t_before,
                   unlocked_access>>
    /\ UNCHANGED <<passVars, quadVars, auxVars>>

\* optimization_step lines 1406-1417 and adam_step lines 1426-1433: the
\* gradient from m_theta, then the count, the moments and m_theta -= ...
AdamUpdateStep(t) ==
    /\ t_pc[t] = "adam_update"
    /\ d_tree' = SetAdamState(d_tree,
                    AdamUpdate(d_params, AdamState(d_tree),
                               Gradient(d_params, d_tree.m_theta, t_rec[t])))
    /\ unlocked_access' = AdamAccess(t, "write")
    /\ t_pc' = [t_pc EXCEPT ![t] = "adam_clamp"]
    /\ UNCHANGED <<d_params, t_rec, t_current, s_pc, s_fraction, t_before,
                   lock_owner>>
    /\ UNCHANGED <<passVars, quadVars, auxVars>>

\* adam_step line 1435: m_theta = clamp(m_theta, -20, 20)
AdamClampStep(t) ==
    /\ t_pc[t] = "adam_clamp"
    /\ d_tree' = [d_tree EXCEPT !.m_theta = Clamp(@, ThetaMin, ThetaMax)]
    /\ unlocked_access' = AdamAccess(t, "write")
    /\ t_pc' = [t_pc EXCEPT ![t] = "release"]
    /\ UNCHANGED <<d_params, t_rec, t_current, s_pc, s_fraction, t_before,
                   lock_owner>>
    /\ UNCHANGED <<passVars, quadVars, auxVars>>

\* release_optimization_spin_lock
Release(t) ==
    /\ t_pc[t] = "release"
    /\ d_tree' = [d_tree EXCEPT !.m_atomic_flag = FALSE]
    /\ lock_owner' = 0
    /\ t_pc' = [t_pc EXCEPT ![t] = "filter"]
    /\ UNCHANGED <<d_params, t_rec, t_current, s_pc, s_fraction, t_before,
                   unlocked_access>>
    /\ UNCHANGED <<passVars, quadVars, auxVars>>

\* DTree::record lines 1130-1133: the early return, or else the load that
\* opens atomic_add(m_current_iter_sample_weight, sample_weight).
Filter(t) ==
    /\ t_pc[t] = "filter"
    /\ IF IsSkipped(t_rec[t])
       THEN /\ t_pc' = [t_pc EXCEPT ![t] = "done"]
            /\ UNCHANGED t_current
       ELSE /\ t_pc' = [t_pc EXCEPT ![t] = "weight_cas"]
            /\ t_current' = [t_current EXCEPT ![t] =
                                d_tree.m_current_iter_sample_weight]
    /\ UNCHANGED <<d_params, d_tree, t_rec, s_pc, s_fraction, t_before,
                   lock_owner, unlocked_access>>
    /\ UNCHANGED <<passVars, quadVars, auxVars>>

\* One compare_exchange_weak of atomic_add on the sample weight.  A failed
\* one, which a weak exchange may be for no reason, reloads current.
WeightCas(t) ==
    /\ t_pc[t] = "weight_cas"
    /\ \/ /\ CasSucceeds(t_current[t], d_tree.m_current_iter_sample_weight)
          /\ d_tree' = [d_tree EXCEPT !.m_current_iter_sample_weight =
                           t_current[t] + t_rec[t].sample_weight]
          /\ t_pc' = [t_pc EXCEPT ![t] = "leaf_load"]
          /\ UNCHANGED t_current
       \/ /\ t_current' = [t_current EXCEPT ![t] =
                              d_tree.m_current_iter_sample_weight]
          /\ UNCHANGED <<d_tree, t_pc>>
    /\ UNCHANGED <<d_params, t_rec, s_pc, s_fraction, t_before, lock_owner,
                   unlocked_access>>
    /\ UNCHANGED <<passVars, quadVars, auxVars>>

\* The leaf m_root_node.add_radiance(direction, radiance) descends to.
LeafFor(t) == LeafOf(d_tree.m_root_node, <<>>, t_rec[t].direction)

\* QuadTreeNode::add_radiance down to the leaf and the load that opens its
\* atomic_add.
LeafLoad(t) ==
    /\ t_pc[t] = "leaf_load"
    /\ t_current' = [t_current EXCEPT ![t] =
                        d_tree.m_root_node[LeafFor(t)].current_sum]
    /\ t_pc' = [t_pc EXCEPT ![t] = "leaf_cas"]
    /\ UNCHANGED <<d_params, d_tree, t_rec, s_pc, s_fraction, t_before,
                   lock_owner, unlocked_access>>
    /\ UNCHANGED <<passVars, quadVars, auxVars>>

\* One compare_exchange_weak of atomic_add on the leaf's radiance sum.
LeafCas(t) ==
    /\ t_pc[t] = "leaf_cas"
    /\ \/ /\ CasSucceeds(t_current[t],
                         d_tree.m_root_node[LeafFor(t)].current_sum)
          /\ d_tree' = [d_tree EXCEPT
                           !.m_root_node[LeafFor(t)].current_sum =
                               t_current[t] + WeightedRadiance(t_rec[t])]
          /\ t_pc' = [t_pc EXCEPT ![t] = "done"]
          /\ UNCHANGED t_current
       \/ /\ t_current' = [t_current EXCEPT ![t] =
                              d_tree.m_root_node[LeafFor(t)].current_sum]
          /\ UNCHANGED <<d_tree, t_pc>>
    /\ UNCHANGED <<d_params, t_rec, s_pc, s_fraction, t_before, lock_owner,
                   unlocked_access>>
    /\ UNCHANGED <<passVars, quadVars, auxVars>>

\* PathGuidedSampler::PathGuidedSampler, line 416:
\* m_bsdf_sampling_fraction(d_tree->bsdf_sampling_fraction()), a read of
\* m_theta with no lock taken.
SamplerConstruct ==
    /\ s_pc = "construct"
    /\ s_fraction' = bsdf_sampling_fraction(d_params, d_tree.m_theta)
    /\ unlocked_access' =
          IF d_params.bsdf_sampling_fraction_mode = "Learn"
          THEN AdamAccess(SamplerThread, "read")
          ELSE unlocked_access
    /\ s_pc' = "done"
    /\ UNCHANGED <<d_params, d_tree, t_pc, t_rec, t_current, t_before,
                   lock_owner>>
    /\ UNCHANGED <<passVars, quadVars, auxVars>>

RecNext ==
    \/ \E t \in Threads :
        \/ RecordBegin(t)
        \/ Acquire(t)
        \/ AdamUpdateStep(t)
        \/ AdamClampStep(t)
        \/ Release(t)
        \/ Filter(t)
        \/ WeightCas(t)
        \/ LeafLoad(t)
        \/ LeafCas(t)
    \/ SamplerConstruct

(***************************************************************************)
(* STreeSpec: the spatial binary tree.  Vertices are recorded into the     *)
(* DTree of the leaf that holds their position; STree::build closes a      *)
(* pass: it builds every DTree, splits the leaves that gathered more than  *)
(* the required samples and restructures every DTree.  A split is a step   *)
(* of its own, so that the state between STreeNode::subdivide and the      *)
(* restructure jobs is a state of the model.                               *)
(***************************************************************************)
MaxSTreeRecords == 3
MaxBuilds == 3

\* sdtree.cpp:59
SpatialSubdivisionThreshold == 4000

\* Points of the scene, already transformed to the unit cube
\* (STree::get_d_tree, lines 1784-1786): fixed point coordinates in
\* [0, PointRes), standing for x / PointRes.
PointRes == 8
Points == {<<0, 0, 0>>, <<7, 7, 7>>}

\* The marker of an inner STreeNode: m_d_tree == nullptr.
NoDTree == [m_is_built |-> FALSE]

\* STreeNode::is_leaf
STreeIsLeaf(node) == node.m_d_tree # NoDTree

\* STreeNode::STreeNode(parameters), lines 1529-1533
STreeNodeNew == [m_axis |-> 0, m_d_tree |-> DTreeNew]

\* DTree::DTree(const DTree&), lines 1108-1123
DTreeCopy(other) == [other EXCEPT !.m_atomic_flag = FALSE]

HalveMut(d) == d

\* DTree::halve_sample_weight, lines 1207-1210
halve_sample_weight(d) ==
    [d EXCEPT !.m_current_iter_sample_weight = @ \div 2]

\* STreeNode::STreeNode(parent_axis, parent_d_tree), lines 1535-1542;
\* Axes is the number of axes the split axis cycles through.
Axes == 3

STreeNodeChild(parent_axis, parent_d_tree) ==
    [m_axis |-> (parent_axis + 1) % Axes,
     m_d_tree |-> halve_sample_weight(DTreeCopy(parent_d_tree))]

\* STreeNode::choose_node, lines 1719-1733: the child slot, and the point
\* in the child's frame.
ChosenSlot(axis, point) == IF 2 * point[axis + 1] < PointRes THEN 0 ELSE 1

ChosenPoint(axis, point) ==
    [point EXCEPT ![axis + 1] = IF 2 * @ < PointRes
                                THEN 2 * @
                                ELSE 2 * @ - PointRes]

\* STreeNode::get_d_tree, lines 1544-1556: the path of the leaf that holds
\* the point.
RECURSIVE STreeLeafOf(_, _, _)
STreeLeafOf(nodes, path, point) ==
    IF STreeIsLeaf(nodes[path])
    THEN path
    ELSE STreeLeafOf(nodes,
                     Append(path, ChosenSlot(nodes[path].m_axis, point)),
                     ChosenPoint(nodes[path].m_axis, point))

STreeLeaves(nodes) == {p \in DOMAIN nodes : STreeIsLeaf(nodes[p])}

\* STree::build line 1853: size_t(4000 * pow(2, iteration * 0.5)), the
\* integer part of the square root of 4000^2 * 2^iteration.
RequiredSamples(iteration) ==
    SqrtSearch(SpatialSubdivisionThreshold * SpatialSubdivisionThreshold
                 * Pow2(iteration), 0, 46000)

IsHeavyMut(d, required_samples) ==
    d.m_current_iter_sample_weight > 2 * required_samples * WeightUnit

\* STreeNode::subdivide(required_samples) line 1565
IsHeavy(d, required_samples) ==
    d.m_current_iter_sample_weight > required_samples * WeightUnit

\* The order in which STreeNode::subdivide visits the leaves: the first
\* child's subtree before the second's.
VisitedBefore(p, q) ==
    \E i \in 1..Min(Len(p), Len(q)) :
        /\ p[i] < q[i]
        /\ \A j \in 1..(i - 1) : p[j] = q[j]

\* STreeNode::subdivide(), lines 1574-1582
STreeSubdivide(nodes, path) ==
    LET node == nodes[path]
        child == STreeNodeChild(node.m_axis, node.m_d_tree)
    IN  [p \in DOMAIN nodes \cup {Append(path, 0), Append(path, 1)} |->
            IF p = path THEN [node EXCEPT !.m_d_tree = NoDTree]
            ELSE IF p \in DOMAIN nodes THEN nodes[p]
            ELSE child]

\* Vertices of one path that fall into one leaf and carry no product: n
\* calls of DTree::record add up to one record of n times the weight.
RecordMany(rec, n) == [rec EXCEPT !.sample_weight = n * WeightUnit]

\* What a pass records at once into the DTree of a point.
ManyRecords == 12000

STreeRecords == {RecPlainB, RecDark, RecordMany(RecPlainA, ManyRecords)}

STreeInit ==
    /\ st_params \in ParamsSet
    /\ st_nodes = (<<>> :> STreeNodeNew)
    /\ st_is_built = FALSE
    /\ st_phase = "render"
    /\ st_iter = 1
    /\ st_required = 0
    /\ st_records = 0
    /\ st_last = [op |-> "none"]

\* STree::record, lines 1807-1845, with the Nearest spatial filter, on the
\* DTree that STree::get_d_tree returns for the point.
STreeRecord ==
    /\ st_phase = "render"
    /\ st_records < MaxSTreeRecords
    /\ \E point \in Points, rec \in STreeRecords :
        LET path == STreeLeafOf(st_nodes, <<>>, point)
        IN  /\ st_nodes' = [st_nodes EXCEPT
                               ![path].m_d_tree = record(st_params, @, rec)]
            /\ st_last' = [op |-> "record", path |-> path, rec |-> rec]
    /\ st_records' = st_records + 1
    /\ UNCHANGED <<st_params, st_is_built, st_phase, st_iter, st_required>>
    /\ UNCHANGED besideSTree

\* STree::build lines 1847-1853: STreeNode::build on every leaf, and the
\* required samples of this iteration.
STreeBuild ==
    /\ st_phase = "render"
    /\ st_iter <= MaxBuilds
    /\ st_nodes' = [p \in DOMAIN st_nodes |->
                      IF STreeIsLeaf(st_nodes[p])
                      THEN [st_nodes[p] EXCEPT !.m_d_tree = build(@)]
                      ELSE st_nodes[p]]
    /\ st_required' = RequiredSamples(st_iter)
    /\ st_phase' = "subdivide"
    /\ st_last' = [op |-> "build"]
    /\ UNCHANGED <<st_params, st_is_built, st_iter, st_records>>
    /\ UNCHANGED besideSTree

\* STree::build line 1856: one split of STreeNode::subdivide, the next
\* leaf in its order that holds more than the required samples.
STreeSplit ==
    /\ st_phase = "subdivide"
    /\ \E path \in STreeLeaves(st_nodes) :
        /\ IsHeavy(st_nodes[path].m_d_tree, st_required)
        /\ \A q \in STreeLeaves(st_nodes) :
              IsHeavy(st_nodes[q].m_d_tree, st_required)
                  => ~VisitedBefore(q, path)
        /\ st_nodes' = STreeSubdivide(st_nodes, path)
        /\ st_last' = [op |-> "split", path |-> path,
                       parent |-> st_nodes[path]]
    /\ UNCHANGED <<st_params, st_is_built, st_phase, st_iter, st_required,
                   st_records>>
    /\ UNCHANGED besideSTree

\* STreeNode::subdivide(required_samples) has returned: no leaf is left to
\* split.
SubdivideDone ==
    /\ st_phase = "subdivide"
    /\ \A path \in STreeLeaves(st_nodes) :
          ~IsHeavy(st_nodes[path].m_d_tree, st_required)

\* STree::build lines 1858-1862 and the end of the call: the restructure
\* job of every leaf, once no leaf is left to split.
STreeRestructure ==
    /\ SubdivideDone
    /\ st_nodes' = [p \in DOMAIN st_nodes |->
                      IF STreeIsLeaf(st_nodes[p])
                      THEN [st_nodes[p] EXCEPT
                              !.m_d_tree =
                                  DTreeRestructure(st_params, @,
                                                   DTreeThreshold)]
                      ELSE st_nodes[p]]
    /\ st_is_built' = TRUE
    /\ st_phase' = "render"
    /\ st_iter' = st_iter + 1
    /\ st_last' = [op |-> "restructure"]
    /\ UNCHANGED <<st_params, st_required, st_records>>
    /\ UNCHANGED besideSTree

STreeNext ==
    \/ STreeRecord
    \/ STreeBuild
    \/ STreeSplit
    \/ STreeRestructure

(***************************************************************************)
(* JobSpec: STree::build with its restructure jobs one at a time.  The     *)
(* driver schedules one job per leaf while the workers of the JobManager   *)
(* acquire and execute the jobs scheduled so far.  A job is named by the   *)
(* path of the STreeNode that owns its DTree: STreeNode::m_d_tree is a     *)
(* unique_ptr, and both copy constructors (DTree, QuadTreeNode) copy the   *)
(* quadtree node by node.                                                  *)
(***************************************************************************)
\* Worker threads of the JobManager in the model (line 1859 starts 12).
NumWorkers == 2
Workers == 1..NumWorkers

\* A worker without a job.
NoJob == <<2>>

RECURSIVE RestructureOrderMut(_, _)
RestructureOrderMut(nodes, path) ==
    IF STreeIsLeaf(nodes[path])
    THEN <<path>>
    ELSE RestructureOrderMut(nodes, Append(path, 0))
           \o RestructureOrderMut(nodes, Append(path, 0))

\* STreeNode::restructure, lines 1643-1656: the DTrees for which a
\* RestructureJob is scheduled, in the order of the calls of schedule.
RECURSIVE RestructureOrder(_, _)
RestructureOrder(nodes, path) ==
    IF STreeIsLeaf(nodes[path])
    THEN <<path>>
    ELSE RestructureOrder(nodes, Append(path, 0))
           \o RestructureOrder(nodes, Append(path, 1))

\* JobQueue: no job is scheduled and none is running, which is what
\* wait_until_completion waits for.
QueueIsIdle(scheduled, running) ==
    /\ scheduled = <<>>
    /\ \A w \in DOMAIN running : running[w] = NoJob

RunningJobs(running) == {w \in DOMAIN running : running[w] # NoJob}

\* Calls of STree::record in one run of the job model.
MaxJobRecords == 1

JobInit ==
    /\ STreeInit
    /\ jq_scheduled = <<>>
    /\ jq_running = [w \in Workers |-> NoJob]
    /\ jq_log = <<>>
    /\ jq_done = {}
    /\ jq_peak = 0

\* STree::record as in STreeRecord, lines 1807-1845.
JobRecord ==
    /\ st_phase = "render"
    /\ st_records < MaxJobRecords
    /\ \E point \in Points, rec \in STreeRecords :
        LET path == STreeLeafOf(st_nodes, <<>>, point)
        IN  /\ st_nodes' = [st_nodes EXCEPT
                               ![path].m_d_tree = record(st_params, @, rec)]
            /\ st_last' = [op |-> "record", path |-> path, rec |-> rec]
    /\ st_records' = st_records + 1
    /\ UNCHANGED <<st_params, st_is_built, st_phase, st_iter, st_required>>
    /\ UNCHANGED besideSTree

\* STree::build lines 1858-1860, once STreeNode::subdivide has returned:
\* a new JobQueue, and jobmanager.start().
JobManagerStart ==
    /\ SubdivideDone
    /\ st_phase' = "schedule"
    /\ jq_scheduled' = <<>>
    /\ jq_running' = [w \in Workers |-> NoJob]
    /\ jq_log' = <<>>
    /\ jq_done' = {}
    /\ jq_peak' = 0
    /\ st_last' = [op |-> "start"]
    /\ UNCHANGED <<st_params, st_nodes, st_is_built, st_iter, st_required,
                   st_records>>
    /\ UNCHANGED besideJob

\* STree::build line 1861: the next call of jobqueue.schedule made by
\* STreeNode::restructure.
JobSchedule ==
    /\ st_phase = "schedule"
    /\ LET order == RestructureOrder(st_nodes, <<>>)
       IN  /\ Len(jq_log) < Len(order)
           /\ jq_scheduled' = Append(jq_scheduled, order[Len(jq_log) + 1])
           /\ jq_log' = Append(jq_log, order[Len(jq_log) + 1])
    /\ st_last' = [op |-> "schedule"]
    /\ UNCHANGED <<st_params, st_nodes, st_is_built, st_phase, st_iter,
                   st_required, st_records>>
    /\ UNCHANGED <<jq_running, jq_done, jq_peak>>
    /\ UNCHANGED besideJob

\* A worker thread takes the oldest scheduled job and starts
\* RestructureJob::execute, lines 1633-1636.
JobAcquire(w) ==
    /\ st_phase = "schedule"
    /\ jq_running[w] = NoJob
    /\ jq_scheduled # <<>>
    /\ jq_running' = [jq_running EXCEPT ![w] = Head(jq_scheduled)]
    /\ jq_scheduled' = Tail(jq_scheduled)
    /\ jq_peak' = Max(jq_peak, Cardinality(RunningJobs(jq_running')))
    /\ st_last' = [op |-> "acquire"]
    /\ UNCHANGED <<st_params, st_nodes, st_is_built, st_phase, st_iter,
                   st_required, st_records>>
    /\ UNCHANGED <<jq_log, jq_done>>
    /\ UNCHANGED besideJob

\* RestructureJob::execute returns: DTree::restructure has run on the
\* DTree of the job, and the job is retired.
JobExecute(w) ==
    /\ st_phase = "schedule"
    /\ jq_running[w] # NoJob
    /\ st_nodes' = [st_nodes EXCEPT
                       ![jq_running[w]].m_d_tree =
                           DTreeRestructure(st_params, @, DTreeThreshold)]
    /\ jq_running' = [jq_running EXCEPT ![w] = NoJob]
    /\ jq_done' = jq_done \cup {jq_running[w]}
    /\ st_last' = [op |-> "execute", path |-> jq_running[w]]
    /\ UNCHANGED <<st_params, st_is_built, st_phase, st_iter, st_required,
                   st_records>>
    /\ UNCHANGED <<jq_scheduled, jq_log, jq_peak>>
    /\ UNCHANGED besideJob

\* STree::build lines 1862-1903: wait_until_completion returns after the
\* last call of schedule, the statistics are gathered and logged, and
\* m_is_built is set.
JobWaitReturns ==
    /\ st_phase = "schedule"
    /\ Len(jq_log) = Len(RestructureOrder(st_nodes, <<>>))
    /\ QueueIsIdle(jq_scheduled, jq_running)
    /\ st_is_built' = TRUE
    /\ st_phase' = "render"
    /\ st_iter' = st_iter + 1
    /\ st_last' = [op |-> "built"]
    /\ UNCHANGED <<st_params, st_nodes, st_required, st_records>>
    /\ UNCHANGED jobVars
    /\ UNCHANGED besideJob

JobNext ==
    \/ JobRecord
    \/ STreeBuild
    \/ STreeSplit
    \/ JobManagerStart
    \/ JobSchedule
    \/ \E w \in Workers : JobAcquire(w)
    \/ \E w \in Workers : JobExecute(w)
    \/ JobWaitReturns

(***************************************************************************)
(* RootSpec: the root of one DTree's quadtree over several passes, with    *)
(* records whose radiance is not a finite number, and the node list that   *)
(* QuadTreeNode::flatten writes.  The sums of the quadtree stay integers;  *)
(* rt_current and rt_previous say whether the float they stand for at the  *)
(* root is finite, +infinity or a NaN.                                     *)
(***************************************************************************)
MaxRootPasses == 3
MaxRootRecords == 1

RootRecords == {RecPlainA, RecPlainB, RecDark}

\* Radiance that is no finite number, as GPTVertex::record_to_tree passes
\* it on for a denormal or NaN throughput.
NonFiniteKinds == {"inf", "nan"}

\* The kind of a sum of two floats none of which is negative.
AddKinds(a, b) ==
    IF a = "nan" \/ b = "nan" THEN "nan"
    ELSE IF a = "inf" \/ b = "inf" THEN "inf"
    ELSE "finite"

\* QuadTreeNode::restructure, lines 263-314, on the root when
\* total_radiance_sum is infinite or a NaN: the fraction of line 270 is a
\* NaN, the test of line 273 fails and lines 292-301 turn an internal root
\* into a leaf, which deletes the whole tree below it.
RestructureNonFinite(tree) == <<>> :> Node(TRUE, 0, tree[<<>>].previous_sum)

\* DTree::restructure, lines 1241-1297, for a root sum of the given kind:
\* neither an infinite sum nor a NaN is <= 0 at line 1249, and no energy
\* ratio is listed for a root that is a leaf.
RootRestructure(params, d, kind) ==
    IF kind = "finite"
    THEN DTreeRestructure(params, d, DTreeThreshold)
    ELSE [d EXCEPT !.m_is_built = TRUE,
                   !.m_current_iter_sample_weight = 0,
                   !.m_root_node = RestructureNonFinite(@),
                   !.m_scattering_mode =
                       IF params.guided_bounce_mode = "Learn"
                       THEN "Diffuse" ELSE @]

\* The order in which QuadTreeNode::flatten visits the children.
FlattenSlots == <<UpperLeft, UpperRight, LowerLeft, LowerRight>>

\* QuadTreeNode::flatten, lines 475-528, on the node at path p when the
\* list holds size nodes: the nodes the call appends.  A child index is
\* the size of the list before the child is flattened.
RECURSIVE FlattenNode(_, _, _)
FlattenNode(tree, p, size) ==
    LET child(k) == ChildPath(p, FlattenSlots[k])
        below(k, at) == IF tree[child(k)].is_leaf
                        THEN <<>>
                        ELSE FlattenNode(tree, child(k), at)
        index(k, at) == IF tree[child(k)].is_leaf THEN 0 ELSE at
        at1 == size + 1
        list1 == below(1, at1)
        at2 == at1 + Len(list1)
        list2 == below(2, at2)
        at3 == at2 + Len(list2)
        list3 == below(3, at3)
        at4 == at3 + Len(list3)
        list4 == below(4, at4)
    IN  <<[path |-> p,
           sums |-> [k \in 1..4 |-> tree[child(k)].previous_sum],
           children |-> <<index(1, at1), index(2, at2), index(3, at3),
                          index(4, at4)>>]>>
            \o list1 \o list2 \o list3 \o list4

\* DTree::write_to_disk line 1442: m_root_node.flatten(nodes).  On a root
\* that is a leaf the call dereferences null pointers: it ends the
\* program or reads whatever is at that address.
flatten(tree) ==
    IF tree[<<>>].is_leaf
    THEN {<<>>, <<[path |-> <<>>, sums |-> <<0, 0, 0, 0>>,
                   children |-> <<1, 1, 1, 1>>]>>}
    ELSE {FlattenNode(tree, <<>>, 0)}

RootInit ==
    /\ d_params \in ParamsSet
    /\ d_tree = DTreeNew
    /\ rt_current = "finite"
    /\ rt_previous = "finite"
    /\ q_phase = "accumulate"
    /\ q_records = 0
    /\ q_cycles = 0
    /\ q_last = [op |-> "none"]

\* DTree::record with a finite radiance.
RootRecord ==
    /\ q_phase = "accumulate"
    /\ q_records < MaxRootRecords
    /\ q_cycles < MaxRootPasses
    /\ \E rec \in RootRecords :
        /\ d_tree' = record(d_params, d_tree, rec)
        /\ q_last' = [op |-> "record"]
    /\ q_records' = q_records + 1
    /\ UNCHANGED <<d_params, q_phase, q_cycles, rt_current, rt_previous>>
    /\ UNCHANGED <<passVars, threadVars, streeVars, sampleVars, adamVars, pathVars, guidedVars, jobVars, proxyVars>>

\* DTree::record, lines 1130-1142, with a radiance that is infinite or a
\* NaN, wi_pdf > 0 and weight 1: the weight is counted and the radiance is
\* added to a leaf.
RootRecordNonFinite ==
    /\ q_phase = "accumulate"
    /\ q_records < MaxRootRecords
    /\ q_cycles < MaxRootPasses
    /\ \E kind \in NonFiniteKinds :
        /\ rt_current' = AddKinds(rt_current, kind)
        /\ q_last' = [op |-> "record"]
    /\ d_tree' = [d_tree EXCEPT
                     !.m_current_iter_sample_weight = @ + WeightUnit]
    /\ q_records' = q_records + 1
    /\ UNCHANGED <<d_params, q_phase, q_cycles, rt_previous>>
    /\ UNCHANGED <<passVars, threadVars, streeVars, sampleVars, adamVars, pathVars, guidedVars, jobVars, proxyVars>>

\* STree::build, first half: DTree::build; the root's previous sum is the
\* sum of the current sums of the leaves.
RootBuild ==
    /\ q_phase = "accumulate"
    /\ q_cycles < MaxRootPasses
    /\ d_tree' = build(d_tree)
    /\ rt_previous' = rt_current
    /\ q_phase' = "built"
    /\ q_cycles' = q_cycles + 1
    /\ q_last' = [op |-> "build"]
    /\ UNCHANGED <<d_params, q_records, rt_current>>
    /\ UNCHANGED <<passVars, threadVars, streeVars, sampleVars, adamVars, pathVars, guidedVars, jobVars, proxyVars>>

\* STree::build, between the halves: the DTree is replaced by the copy
\* that a split of its STreeNode makes.
RootCopy ==
    /\ q_phase = "built"
    /\ q_last.op = "build"
    /\ d_tree' = halve_sample_weight(DTreeCopy(d_tree))
    /\ q_last' = [op |-> "copy"]
    /\ UNCHANGED <<d_params, q_phase, q_records, q_cycles, rt_current,
                   rt_previous>>
    /\ UNCHANGED <<passVars, threadVars, streeVars, sampleVars, adamVars, pathVars, guidedVars, jobVars, proxyVars>>

\* STree::build, second half: the RestructureJob of this DTree.  Every
\* current sum that is left is 0.
RootRestructureJob ==
    /\ q_phase = "built"
    /\ d_tree' = RootRestructure(d_params, d_tree, rt_previous)
    /\ rt_current' = "finite"
    /\ q_phase' = "accumulate"
    /\ q_records' = 0
    /\ q_last' = [op |-> "restructure", total |-> rt_previous]
    /\ UNCHANGED <<d_params, q_cycles, rt_previous>>
    /\ UNCHANGED <<passVars, threadVars, streeVars, sampleVars, adamVars, pathVars, guidedVars, jobVars, proxyVars>>

\* DTree::write_to_disk, lines 1438-1454, between two builds.
RootFlatten ==
    /\ q_phase = "accumulate"
    /\ q_last.op # "flatten"
    /\ \E nodes \in flatten(d_tree.m_root_node) :
          q_last' = [op |-> "flatten", nodes |-> nodes]
    /\ UNCHANGED <<d_params, d_tree, q_phase, q_records, q_cycles,
                   rt_current, rt_previous>>
    /\ UNCHANGED <<passVars, threadVars, streeVars, sampleVars, adamVars, pathVars, guidedVars, jobVars, proxyVars>>

RootNext ==
    \/ RootRecord
    \/ RootRecordNonFinite
    \/ RootBuild
    \/ RootCopy
    \/ RootRestructureJob
    \/ RootFlatten

(***************************************************************************)
(* FilterSpec: STree::record under every spatial and directional filter,   *)
(* on S-trees as earlier builds leave them.  The scene box is the unit     *)
(* cube, PointRes units wide.                                              *)
(***************************************************************************)
MaxFilterRecords == 2
DeepCycles == 3

SpatialFilters == {"Nearest", "Stochastic", "Box"}
DirectionalFilters == {"Nearest", "Box"}

FilterParams(spatial_filter, directional_filter) ==
    [MakeParams("Learn", "Learn") EXCEPT
        !.spatial_filter = spatial_filter,
        !.directional_filter = directional_filter]

FilterParamsSet ==
    {FilterParams(sf, df) : sf \in SpatialFilters, df \in DirectionalFilters}

\* m_scene_aabb, in box coordinates.
SceneBox ==
    AABB(<<0, 0, 0>>,
         <<BoxUnit * PointRes, BoxUnit * PointRes, BoxUnit * PointRes>>)

\* STree::get_d_tree line 1793 and STreeNode::get_d_tree line 1552: the
\* size of the leaf that holds the point, in point units.
RECURSIVE STreeNodeSize(_, _, _, _)
STreeNodeSize(nodes, path, point, size) ==
    IF STreeIsLeaf(nodes[path])
    THEN size
    ELSE LET axis == nodes[path].m_axis
         IN  STreeNodeSize(nodes, Append(path, ChosenSlot(axis, point)),
                           ChosenPoint(axis, point),
                           [size EXCEPT ![axis + 1] = @ \div 2])

\* STree::clip_vector_to_aabb, lines 1934-1943
clip_vector_to_aabb(point) ==
    [i \in DOMAIN point |-> Min(Max(point[i], 0), PointRes)]

\* STree::record lines 1829-1834: size * (u - 0.5) for a uniform u counted
\* in eighths.
JitterOffset(size, u) ==
    [i \in DOMAIN size |-> Div(size[i] * (2 * u[i] - 8), 16)]

Jitters == {<<0, 0, 0>>, <<4, 4, 4>>, <<7, 7, 7>>}

\* STreeNode::record lines 1615-1620: the boxes of the two children.
STreeChildBox(node_aabb, axis, slot) ==
    LET offset == [i \in DOMAIN node_aabb.min |->
                      IF i = axis + 1 THEN extent(node_aabb)[i] \div 2
                      ELSE 0]
    IN  IF slot = 0
        THEN AABB(node_aabb.min,
                  [i \in DOMAIN node_aabb.max |-> node_aabb.max[i] - offset[i]])
        ELSE AABB([i \in DOMAIN node_aabb.min |-> node_aabb.min[i] + offset[i]],
                  node_aabb.max)

\* STreeNode::record, lines 1585-1622; weight is the sample weight and the
\* splat whose volume line 1930 divides it by, the quotient being taken
\* when it is multiplied.
RECURSIVE STreeNodeRecord(_, _, _, _, _, _, _)
STreeNodeRecord(params, nodes, path, splat_aabb, node_aabb, rec, weight) ==
    LET intersection_aabb == intersect(splat_aabb, node_aabb)
        node == nodes[path]
        into(ns, slot) ==
            STreeNodeRecord(params, ns, Append(path, slot), splat_aabb,
                            STreeChildBox(node_aabb, node.m_axis, slot),
                            rec, weight)
    IN  IF ~is_valid(intersection_aabb) THEN nodes
        ELSE IF ~PositiveVolume(intersection_aabb) THEN nodes
        ELSE IF STreeIsLeaf(node)
        THEN [nodes EXCEPT ![path].m_d_tree =
                 record(params, @,
                        [rec EXCEPT !.sample_weight =
                            Div(weight.num
                                  * VolumeFraction(intersection_aabb,
                                                   weight.splat),
                                FractionUnit)])]
        ELSE LET first == into(nodes, 0)
             IN  into(first, 1)

\* STree::box_filter_splat line 1926: the box point -+ 0.5 * size
SpatialSplatBox(point, size) ==
    AABB([i \in DOMAIN point |-> BoxUnit * point[i] - size[i]],
         [i \in DOMAIN point |-> BoxUnit * point[i] + size[i]])

\* STree::box_filter_splat, lines 1921-1932
box_filter_splat(params, nodes, point, size, rec) ==
    LET splat_aabb == SpatialSplatBox(point, size)
    IN  STreeNodeRecord(params, nodes, <<>>, splat_aabb, SceneBox, rec,
                        [num |-> rec.sample_weight, splat |-> splat_aabb])

\* STree::record, lines 1807-1845, for a vertex at the point: d_tree and
\* d_tree_node_size are what STree::get_d_tree gave the vertex.
STreeRecordCall(params, nodes, point, rec, jitter) ==
    LET path == STreeLeafOf(nodes, <<>>, point)
        size == STreeNodeSize(nodes, <<>>, point,
                              <<PointRes, PointRes, PointRes>>)
        jittered_point ==
            clip_vector_to_aabb([i \in DOMAIN point |->
                                    point[i] + JitterOffset(size, jitter)[i]])
        stochastic_path == STreeLeafOf(nodes, <<>>, jittered_point)
    IN  CASE params.spatial_filter = "Nearest" ->
                [nodes EXCEPT ![path].m_d_tree = record(params, @, rec)]
          [] params.spatial_filter = "Stochastic" ->
                [nodes EXCEPT ![stochastic_path].m_d_tree =
                                  record(params, @, rec)]
          [] params.spatial_filter = "Box" ->
                box_filter_splat(params, nodes, point, size, rec)

\* A direction inside a quadrant of the root, which every later split
\* makes a corner of four leaves.
DirCorner == [x |-> DirRes \div 4, y |-> DirRes \div 4]
RecCorner == MakeRecord(DirCorner, 2 * RadianceUnit, 2, 1, 3, 1, FALSE)

\* S-trees as builds leave them: a new one, a single leaf whose DTree was
\* refined by DeepCycles builds with all radiance in one direction, and a
\* root split into two leaves.
FilterTrees(params) ==
    {(<<>> :> STreeNodeNew),
     (<<>> :> [STreeNodeNew EXCEPT
                  !.m_d_tree = Cycles(params, DTreeNew, RecCorner, DeepCycles)]),
     STreeSubdivide((<<>> :> [STreeNodeNew EXCEPT
                                 !.m_d_tree = Cycle(params, DTreeNew, RecCorner)]),
                    <<>>)}

FilterRecords == {RecCorner, RecPlainB, RecDelta, RecDark}

FilterInit ==
    /\ st_params \in FilterParamsSet
    /\ st_nodes \in FilterTrees(st_params)
    /\ st_is_built = TRUE
    /\ st_phase = "render"
    /\ st_iter = 1
    /\ st_required = 0
    /\ st_records = 0
    /\ st_last = [op |-> "none"]

\* STree::record, lines 1807-1845, whole.
FilterRecord ==
    /\ st_phase = "render"
    /\ st_records < MaxFilterRecords
    /\ \E point \in Points, rec \in FilterRecords, jitter \in Jitters :
        /\ st_nodes' = STreeRecordCall(st_params, st_nodes, point, rec, jitter)
        /\ st_last' = [op |-> "record", point |-> point, rec |-> rec,
                       before |-> st_nodes,
                       start |-> IF st_last.op = "none" THEN st_nodes
                                 ELSE st_last.start]
    /\ st_records' = st_records + 1
    /\ UNCHANGED <<st_params, st_is_built, st_phase, st_iter, st_required>>
    /\ UNCHANGED besideSTree

FilterNext == FilterRecord

(***************************************************************************)
(* Sampling a DTree and evaluating its pdf.  Uniform samples, sampled      *)
(* directions and pdfs are exact fractions num / den; a pdf is counted in  *)
(* units of RcpFourPi = 1 / (4 pi).                                        *)
(***************************************************************************)
FracLess(a, b) == a.num * b.den < b.num * a.den

FracDiv(a, b) == Frac(a.num * b.den, a.den * b.num)

\* std::nextafter(1.0f, 0.0f)
OneBelow == [num |-> 16777215, den |-> 16777216]

\* sample_recursive lines 362-366
ClampBelowOne(s) == IF s.num >= s.den THEN OneBelow ELSE s

\* sample_recursive: (s - factor) / (1 - factor)
Renormalise(s, factor) ==
    Frac(s.num * factor.den - factor.num * s.den,
         s.den * (factor.den - factor.num))

\* sample_recursive: offset + 0.5f * child_sample, offset being 0 or 0.5
HalfOffset(is_second_half, s) ==
    Frac((IF is_second_half THEN s.den ELSE 0) + s.num, 2 * s.den)

ProbabilityFactorMut(child_sum, previous_sum) ==
    Frac(2 * child_sum, previous_sum)

\* sample_recursive: probability_factor = 4 * child / m_previous_iter_radiance_sum
ProbabilityFactor(child_sum, previous_sum) ==
    Frac(4 * child_sum, previous_sum)

FracTimes(a, b) == Frac(a.num * b.num, a.den * b.den)

\* QuadTreeNode::sample and QuadTreeNode::sample_recursive, lines 342-431,
\* on the node at path p: the sampled point and the pdf.  QuadTreeNode::
\* sample sets pdf to one at every level, and every level multiplies its
\* factor after its child returned.
RECURSIVE sample_recursive(_, _, _)
sample_recursive(tree, p, s) ==
    LET sx == ClampBelowOne(s.x)
        sy == ClampBelowOne(s.y)
    IN  IF tree[p].is_leaf
        THEN [direction |-> [x |-> sx, y |-> sy], pdf |-> Frac(1, 1)]
        ELSE
        LET previous == tree[p].previous_sum
            upper_left == tree[ChildPath(p, UpperLeft)].previous_sum
            upper_right == tree[ChildPath(p, UpperRight)].previous_sum
            lower_right == tree[ChildPath(p, LowerRight)].previous_sum
            lower_left == tree[ChildPath(p, LowerLeft)].previous_sum
            sum_left_half == upper_left + lower_left
            sum_right_half == upper_right + lower_right
            left == FracLess(sx, Frac(sum_left_half, previous))
            x1 == IF left
                  THEN FracDiv(sx, Frac(sum_left_half, previous))
                  ELSE Renormalise(sx, Frac(sum_left_half, previous))
            factor == IF left THEN Frac(upper_left, sum_left_half)
                      ELSE Frac(upper_right, sum_right_half)
            up == FracLess(sy, factor)
            y1 == IF up THEN FracDiv(sy, factor) ELSE Renormalise(sy, factor)
            slot == IF left THEN (IF up THEN UpperLeft ELSE LowerLeft)
                    ELSE (IF up THEN UpperRight ELSE LowerRight)
            sub == sample_recursive(tree, ChildPath(p, slot),
                                    [x |-> x1, y |-> y1])
        IN  [direction |-> [x |-> HalfOffset(~left, sub.direction.x),
                            y |-> HalfOffset(~up, sub.direction.y)],
             pdf |-> FracTimes(sub.pdf,
                               ProbabilityFactor(
                                   tree[ChildPath(p, slot)].previous_sum,
                                   previous))]

\* The cell of the direction grid a coordinate in [0, 1) falls into: the
\* first bits binary digits of num / den.  QuadTreeNode::choose_node reads
\* no more of a direction than the digits down to the deepest leaf.
RECURSIVE FixedPoint(_, _, _)
FixedPoint(num, den, bits) ==
    IF bits = 0
    THEN 0
    ELSE IF 2 * num >= den
         THEN Pow2(bits - 1) + FixedPoint(2 * num - den, den, bits - 1)
         ELSE FixedPoint(2 * num, den, bits - 1)

PdfFactorMut(sub_node_sum, previous_sum) ==
    Frac(2 * sub_node_sum, previous_sum)

\* QuadTreeNode::pdf line 338
PdfFactor(sub_node_sum, previous_sum) ==
    Frac(4 * sub_node_sum, previous_sum)

\* QuadTreeNode::pdf, lines 331-340, on the node at path p; direction in
\* the fixed point coordinates of choose_node.
RECURSIVE pdf(_, _, _)
pdf(tree, p, direction) ==
    IF tree[p].is_leaf
    THEN Frac(1, 1)
    ELSE LET c == choose_node(direction)
             sub_node == ChildPath(p, c.child)
             factor == PdfFactor(tree[sub_node].previous_sum,
                                 tree[p].previous_sum)
         IN  FracTimes(factor, pdf(tree, sub_node, c.direction))

\* A Vector3f of unit length, by its z and the azimuth of its (x, y) part
\* in turns.  Where sin_theta is 0 both x and y are zeros: the azimuth is
\* gone and only the signs of the two zeros are left.
\* cylindrical_to_cartesian, lines 104-117.
cylindrical_to_cartesian(c) ==
    LET cos_theta == Frac(2 * c.x.num - c.x.den, c.x.den)
        sin_theta_is_zero == Abs(cos_theta.num) = cos_theta.den
        cos_phi_negative == 4 * c.y.num > c.y.den /\ 4 * c.y.num < 3 * c.y.den
        sin_phi_negative == 2 * c.y.num > c.y.den
    IN  [z |-> cos_theta,
         on_axis |-> sin_theta_is_zero,
         azimuth |-> IF sin_theta_is_zero THEN Frac(0, 1) ELSE c.y,
         x_negative |-> sin_theta_is_zero /\ cos_phi_negative,
         y_negative |-> sin_theta_is_zero /\ sin_phi_negative]

\* cartesian_to_cylindrical, lines 88-102: atan2 of two zeros is 0 or pi
\* by the sign of x (and -pi becomes pi, -0 stays 0).
cartesian_to_cylindrical(v) ==
    [x |-> Frac(v.z.num + v.z.den, 2 * v.z.den),
     y |-> IF v.on_axis
           THEN (IF v.x_negative THEN Frac(1, 2) ELSE Frac(0, 1))
           ELSE v.azimuth]

\* foundation::sample_sphere_uniform as called in line 1181: z = 1 - 2 s.x
\* and the azimuth s.y.
sample_sphere_uniform(s) ==
    cylindrical_to_cartesian([x |-> Frac(s.x.den - s.x.num, s.x.den),
                              y |-> s.y])

ModeMaskedMut(d, modes) == FALSE

\* DTree::sample and DTree::pdf: (modes & m_scattering_mode) == 0
ModeMasked(d, modes) == d.m_scattering_mode \notin modes

\* DTree::sample line 1179, DTree::pdf line 1200
UsesFallback(d) ==
    \/ d.m_previous_iter_sample_weight <= 0
    \/ d.m_root_node[<<>>].previous_sum <= 0

\* DTree::sample, lines 1164-1192: what the call leaves in d_tree_sample.
DTreeSample(d, d_tree_sample, s, modes) ==
    IF ModeMasked(d, modes)
    THEN [d_tree_sample EXCEPT !.scattering_mode = "None",
                               !.pdf = Frac(0, 1)]
    ELSE IF UsesFallback(d)
    THEN [direction |-> sample_sphere_uniform(s),
          pdf |-> Frac(1, 1),
          scattering_mode |-> "Diffuse"]
    ELSE LET sampled == sample_recursive(d.m_root_node, <<>>, s)
         IN  [direction |-> cylindrical_to_cartesian(sampled.direction),
              pdf |-> sampled.pdf,
              scattering_mode |-> d.m_scattering_mode]

\* DTree::pdf, lines 1194-1205
DTreePdf(d, direction, modes) ==
    IF ModeMasked(d, modes)
    THEN Frac(0, 1)
    ELSE IF UsesFallback(d)
    THEN Frac(1, 1)
    ELSE LET dir == cartesian_to_cylindrical(direction)
         IN  pdf(d.m_root_node, <<>>,
                 [x |-> FixedPoint(dir.x.num, dir.x.den, DTreeMaxDepth - 1),
                  y |-> FixedPoint(dir.y.num, dir.y.den, DTreeMaxDepth - 1)])

(***************************************************************************)
(* SampleSpec: a DTree between two builds, sampled and queried by the      *)
(* renderer.                                                               *)
(***************************************************************************)
\* The uniform samples are the multiples of 1 / UniformRes in [0, 1).
UniformRes == 3

Uniforms ==
    {[x |-> Frac(i, UniformRes), y |-> Frac(j, UniformRes)] :
        i \in 0..(UniformRes - 1), j \in 0..(UniformRes - 1)}

\* The directions DTree::pdf is asked for.
QueryDirections ==
    {cylindrical_to_cartesian([x |-> Frac(i, 2), y |-> Frac(3 * j, 8)]) :
        i \in 0..1, j \in 0..1}

\* The mode masks a caller passes.
ModeMasks == {{"Diffuse"}, {"Glossy", "Specular"}}

\* A direction next to the pole cos_theta = -1.
DirPole == [x |-> 0, y |-> 3 * (DirRes \div 8)]
RecPole == MakeRecord(DirPole, 2 * RadianceUnit, 1, 1, 3, 0, FALSE)

\* The DTrees that are sampled: a new one, and trees after one or two
\* passes of records.
SampledTrees(params) ==
    LET once == Cycle(params, DTreeNew, RecPlainA)
    IN  {DTreeNew,
         once,
         Cycle(params, once, RecPlainA),
         Cycle(params, once, RecPole),
         Cycle(params, record(params, once, RecPlainA), RecPlainB),
         Cycle(params, record(params, once, RecPole), RecPlainB),
         Cycle(params, once, RecDark),
         DTreeRestructure(params, build(once), DTreeThreshold)}

\* A DTreeSample nothing was written to.
DTreeSampleNew ==
    [direction |-> cylindrical_to_cartesian([x |-> Frac(1, 2),
                                             y |-> Frac(0, 1)]),
     pdf |-> Frac(0, 1),
     scattering_mode |-> "None"]

SampleInit ==
    /\ d_params \in ParamsSet
    /\ d_tree \in SampledTrees(d_params)
    /\ ds_sample = DTreeSampleNew
    /\ ds_pdf = Frac(0, 1)
    /\ ds_last = [op |-> "none"]

\* DTree::sample with the next two uniform numbers of the sampling context.
DSample ==
    /\ \E s \in Uniforms, modes \in ModeMasks :
        /\ ds_sample' = DTreeSample(d_tree, ds_sample, s, modes)
        /\ ds_last' = [op |-> "sample", s |-> s, modes |-> modes]
    /\ UNCHANGED <<d_params, d_tree, ds_pdf>>
    /\ UNCHANGED besideSample

\* DTree::pdf at the direction that was sampled last, or at another one.
DPdf ==
    /\ \E direction \in QueryDirections \cup {ds_sample.direction},
          modes \in ModeMasks :
        /\ ds_pdf' = DTreePdf(d_tree, direction, modes)
        /\ ds_last' = [op |-> "pdf", direction |-> direction,
                       modes |-> modes]
    /\ UNCHANGED <<d_params, d_tree, ds_sample>>
    /\ UNCHANGED besideSample

SampleNext ==
    \/ DSample
    \/ DPdf

(***************************************************************************)
(* Floats that are not numbers.  A float is finite, with its fixed point   *)
(* value, or one of the infinities, or a NaN.                              *)
(***************************************************************************)
FloatKinds == {"finite", "inf", "-inf", "nan"}

Float(kind, v) == [kind |-> kind, v |-> IF kind = "finite" THEN v ELSE 0]
Finite(v) == Float("finite", v)
NaN == Float("nan", 0)
Inf(negative) == Float(IF negative THEN "-inf" ELSE "inf", 0)

\* std::isfinite
IsFinite(f) == f.kind = "finite"

\* a < b: false as soon as one side is a NaN.
FloatLess(a, b) ==
    CASE a.kind = "nan" \/ b.kind = "nan" -> FALSE
      [] a.kind = "-inf" -> b.kind # "-inf"
      [] a.kind = "inf" -> FALSE
      [] b.kind = "inf" -> TRUE
      [] b.kind = "-inf" -> FALSE
      [] OTHER -> a.v < b.v

\* beta * a + (1 - beta) * b for a beta strictly between 0 and 1.
FloatMix(beta, a, b) ==
    CASE IsFinite(a) /\ IsFinite(b) ->
            Finite(Div(beta * a.v + (Scale - beta) * b.v, Scale))
      [] a.kind = "nan" \/ b.kind = "nan" -> NaN
      [] IsFinite(a) -> b
      [] IsFinite(b) -> a
      [] OTHER -> IF a.kind = b.kind THEN a ELSE NaN

\* g * g
FloatSquare(g) ==
    CASE IsFinite(g) -> Finite(Div(g.v * g.v, Scale))
      [] g.kind = "nan" -> NaN
      [] OTHER -> Inf(FALSE)

\* DTree::optimization_step lines 1406-1416 in floats: the division by
\* wi_pdf * combined_pdf is a division by zero when that product is zero.
FloatGradient(params, theta, rec) ==
    IF ~IsFinite(theta)
    THEN NaN
    ELSE LET sampling_fraction == bsdf_sampling_fraction(params, theta.v)
             combined_pdf == sampling_fraction * rec.bsdf_pdf
                             + (Scale - sampling_fraction) * rec.d_tree_pdf
             numerator == -rec.product * (rec.bsdf_pdf - rec.d_tree_pdf)
         IN  IF rec.wi_pdf * combined_pdf # 0
             THEN Finite(Gradient(params, theta.v, rec))
             ELSE IF \/ numerator = 0
                     \/ sampling_fraction * (Scale - sampling_fraction) = 0
                     \/ rec.sample_weight = 0
                  THEN NaN
                  ELSE Inf(numerator < 0)

\* The Adam members of a DTree as floats: kind names the kind of each.
FloatAdamState(d, kind) ==
    [count |-> d.m_optimization_step_count,
     first |-> Float(kind.first, d.m_first_moment),
     second |-> Float(kind.second, d.m_second_moment),
     theta |-> Float(kind.theta, d.m_theta)]

AdamValues(adam) ==
    [count |-> adam.count, first |-> adam.first.v,
     second |-> adam.second.v, theta |-> adam.theta.v]

AdamKinds(adam) ==
    [first |-> adam.first.kind, second |-> adam.second.kind,
     theta |-> adam.theta.kind]

AllFinite == [first |-> "finite", second |-> "finite", theta |-> "finite"]

\* m_first_moment / (std::sqrt(m_second_moment) + OptimizationEpsilon) with
\* one of the two not finite; the second moment is never negative.
FloatRatio(first, second) ==
    CASE first.kind = "nan" \/ second.kind = "nan" -> NaN
      [] IsFinite(first) -> Finite(0)
      [] IsFinite(second) -> first
      [] OTHER -> NaN

\* theta - debiased_learning_rate * ratio, the learning rate being positive.
FloatThetaStep(theta, ratio) ==
    CASE theta.kind = "nan" \/ ratio.kind = "nan" -> NaN
      [] IsFinite(ratio) -> theta
      [] IsFinite(theta) -> Inf(ratio.kind = "inf")
      [] OTHER -> IF theta.kind = ratio.kind THEN NaN ELSE theta

\* DTree::adam_step lines 1426-1433 in floats, before the clamp.
FloatAdamUpdate(params, adam, gradient) ==
    IF /\ IsFinite(gradient) /\ IsFinite(adam.first)
       /\ IsFinite(adam.second) /\ IsFinite(adam.theta)
    THEN LET r == AdamUpdate(params, AdamValues(adam), gradient.v)
         IN  [count |-> r.count, first |-> Finite(r.first),
              second |-> Finite(r.second), theta |-> Finite(r.theta)]
    ELSE LET first == FloatMix(Beta1, adam.first, gradient)
             second == FloatMix(Beta2, adam.second, FloatSquare(gradient))
         IN  [count |-> adam.count + 1, first |-> first, second |-> second,
              theta |-> FloatThetaStep(adam.theta,
                                       FloatRatio(first, second))]

\* foundation::clamp on a float: x < low ? low : x > high ? high : x
FloatClamp(x, lo, hi) ==
    IF IsFinite(x)
    THEN Finite(Clamp(x.v, lo, hi))
    ELSE IF FloatLess(x, Finite(lo))
         THEN Finite(lo)
         ELSE IF FloatLess(Finite(hi), x) THEN Finite(hi) ELSE x

\* DTree::adam_step in floats, whole.
FloatAdamStep(params, adam, gradient) ==
    [FloatAdamUpdate(params, adam, gradient) EXCEPT
        !.theta = FloatClamp(@, ThetaMin, ThetaMax)]

(***************************************************************************)
(* AdamSpec: the Adam state of one DTree through records, builds with      *)
(* restructure, and the copy an STree split makes of it.                   *)
(***************************************************************************)
MaxAdamSteps == 3

\* A learning rate of 15: two steps take theta to the clamp.
LargeLearningRate == 15000

AdamParamsSet == {MakeParams("Learn", "Learn"),
                  [MakeParams("Learn", "Learn") EXCEPT
                      !.learning_rate = LargeLearningRate]}

\* Records with a positive product: the BSDF's pdf below the D-tree's and
\* above it, a strong one, and one whose wi_pdf is zero.
RecStrong == MakeRecord(DirA, 4 * RadianceUnit, 1, 1, 3, 40, FALSE)
RecLitZeroPdf == MakeRecord(DirB, RadianceUnit, 0, 1, 3, 1, FALSE)
AdamRecords == {RecPlainB, RecDelta, RecStrong, RecLitZeroPdf}

NoCopy == [made |-> FALSE]

AdamInit ==
    /\ d_params \in AdamParamsSet
    /\ d_tree = Cycle(d_params, DTreeNew, RecPlainA)
    /\ ad_kind = AllFinite
    /\ ad_copy = NoCopy
    /\ ad_steps = 0
    /\ ad_last = [op |-> "none"]

\* DTree::record, lines 1124-1162, the optimization step in floats.
AdamRecord ==
    /\ ad_steps < MaxAdamSteps
    /\ \E rec \in AdamRecords :
        LET wants == WantsOptimization(d_params, d_tree.m_is_built, rec)
            before == FloatAdamState(d_tree, ad_kind)
            gradient == FloatGradient(d_params, before.theta, rec)
            after == IF wants
                     THEN FloatAdamStep(d_params, before, gradient)
                     ELSE before
        IN  /\ d_tree' = accumulate(SetAdamState(d_tree, AdamValues(after)),
                                    rec)
            /\ ad_kind' = AdamKinds(after)
            /\ ad_last' = [op |-> "record", stepped |-> wants,
                           gradient |-> IF wants THEN gradient ELSE Finite(0),
                           before |-> before, after |-> after]
    /\ ad_steps' = ad_steps + 1
    /\ UNCHANGED <<d_params, ad_copy>>
    /\ UNCHANGED besideAdam

\* DTree::build and DTree::restructure as STree::build runs them; a tree
\* that gathered no radiance has its Adam state reset (lines 1253-1256).
AdamBuild ==
    /\ ad_steps < MaxAdamSteps
    /\ LET built == build(d_tree)
           is_reset == built.m_root_node[<<>>].previous_sum <= 0
       IN  /\ d_tree' = DTreeRestructure(d_params, built, DTreeThreshold)
           /\ ad_kind' = IF is_reset THEN AllFinite ELSE ad_kind
           /\ ad_last' = [op |-> "build", is_reset |-> is_reset]
    /\ ad_steps' = ad_steps + 1
    /\ UNCHANGED <<d_params, ad_copy>>
    /\ UNCHANGED besideAdam

\* STreeNode::subdivide, lines 1560-1582: a child's DTree is a copy.
AdamSplit ==
    /\ ~ad_copy.made
    /\ ad_copy' = [made |-> TRUE,
                   tree |-> STreeNodeChild(0, d_tree).m_d_tree,
                   kind |-> ad_kind]
    /\ ad_last' = [op |-> "split"]
    /\ UNCHANGED <<d_params, d_tree, ad_kind, ad_steps>>
    /\ UNCHANGED besideAdam

AdamNext ==
    \/ AdamRecord
    \/ AdamBuild
    \/ AdamSplit

(***************************************************************************)
(* GPTVertex and GPTVertexPath.  The channels of a Spectrum are floats in  *)
(* units of 1 / RadianceUnit; the SD-tree is seen through the records that *)
(* are handed to STree::record.                                            *)
(***************************************************************************)
\* m_path.size()
PathCapacity == 2

\* Spectrum::size()
SpectrumSize == 2

\* Calls of add_radiance and add_indirect_radiance on one path.
MaxAdds == 2

Channels == 1 .. SpectrumSize

\* a + b
FloatPlus(a, b) ==
    CASE IsFinite(a) /\ IsFinite(b) -> Finite(a.v + b.v)
      [] a.kind = "nan" \/ b.kind = "nan" -> NaN
      [] IsFinite(a) -> b
      [] IsFinite(b) -> a
      [] OTHER -> IF a.kind = b.kind THEN a ELSE NaN

IsNegative(f) == FloatLess(f, Finite(0))

\* a * b; an infinity times zero is a NaN.
FloatTimes(a, b) ==
    CASE IsFinite(a) /\ IsFinite(b) -> Finite(Div(a.v * b.v, RadianceUnit))
      [] a.kind = "nan" \/ b.kind = "nan" -> NaN
      [] a = Finite(0) \/ b = Finite(0) -> NaN
      [] OTHER -> Inf(IsNegative(a) # IsNegative(b))

\* 1.0f / t for a t that is not zero.
FloatRcp(t) ==
    CASE IsFinite(t) -> Finite(Div(RadianceUnit * RadianceUnit, t.v))
      [] t.kind = "nan" -> NaN
      [] OTHER -> Finite(0)

\* A Spectrum with the same value in every channel, and one whose last
\* channel differs.
Uniform(f) == [i \in Channels |-> f]
LastChannel(f, last) == [i \in Channels |-> IF i = SpectrumSize THEN last ELSE f]

One == Finite(RadianceUnit)

\* Spectrum::operator+=
SpectrumPlus(a, b) == [i \in Channels |-> FloatPlus(a[i], b[i])]

RECURSIVE ChannelSum(_, _)
ChannelSum(s, i) ==
    IF i = 0 THEN Finite(0) ELSE FloatPlus(ChannelSum(s, i - 1), s[i])

\* foundation::average_value
average_value(s) ==
    LET sum == ChannelSum(s, SpectrumSize)
    IN  IF IsFinite(sum) THEN Finite(Div(sum.v, SpectrumSize)) ELSE sum

MakeVertex(throughput, bsdf_value) ==
    [m_radiance |-> Uniform(Finite(0)), m_throughput |-> throughput,
     m_bsdf_value |-> bsdf_value, m_direction |-> DirA, m_wi_pdf |-> 1,
     m_bsdf_pdf |-> 1, m_d_tree_pdf |-> 1, m_is_delta |-> FALSE]

\* The vertices a path is built from: throughputs that are zero, negative
\* and NaN, and BSDF values that are NaN and negative.
Vertices ==
    {MakeVertex(Uniform(One), Uniform(One)),
     MakeVertex(Uniform(Finite(0)), Uniform(One)),
     MakeVertex(LastChannel(One, Finite(-RadianceUnit)), Uniform(One)),
     MakeVertex(LastChannel(One, NaN), Uniform(One)),
     MakeVertex(Uniform(One), LastChannel(One, NaN)),
     MakeVertex(Uniform(One), LastChannel(One, Finite(-RadianceUnit)))}

\* The radiance that is added along a path: plain, with an infinite channel
\* and with a negative one.
Radiances ==
    {Uniform(One), LastChannel(One, Inf(FALSE)),
     LastChannel(One, Finite(-2 * RadianceUnit))}

\* A slot of m_path that no vertex was assigned to.
FreeSlot == [free |-> TRUE]

Slots == 0 .. PathCapacity - 1

ChannelIsValidMut(v, i) ==
    /\ IsFinite(v.m_radiance[i]) /\ ~IsNegative(v.m_radiance[i])
    /\ IsFinite(v.m_bsdf_value[i])

\* GPTVertex::record_to_tree, lines 2015-2016, negated.
ChannelIsValid(v, i) ==
    /\ IsFinite(v.m_radiance[i]) /\ ~IsNegative(v.m_radiance[i])
    /\ IsFinite(v.m_bsdf_value[i]) /\ ~IsNegative(v.m_bsdf_value[i])

\* line 2021
rcp_factor(t) == IF t = Finite(0) THEN Finite(0) ELSE FloatRcp(t)

\* lines 2023-2024
vertex_incoming_radiance(v) ==
    [i \in Channels |-> FloatTimes(v.m_radiance[i], rcp_factor(v.m_throughput[i]))]

vertex_product(v) ==
    [i \in Channels |-> FloatTimes(vertex_incoming_radiance(v)[i], v.m_bsdf_value[i])]

\* lines 2027-2035
VertexRecord(v) ==
    [direction |-> v.m_direction,
     radiance |-> average_value(vertex_incoming_radiance(v)),
     wi_pdf |-> v.m_wi_pdf, bsdf_pdf |-> v.m_bsdf_pdf,
     d_tree_pdf |-> v.m_d_tree_pdf, sample_weight |-> One,
     product |-> average_value(vertex_product(v)), is_delta |-> v.m_is_delta]

\* GPTVertex::record_to_tree, lines 2005-2038: the calls of STree::record
\* it adds to the calls made so far; slot tells the vertex apart.
VertexRecordToTree(calls, v, slot) ==
    IF \E i \in Channels : ~ChannelIsValid(v, i)
    THEN calls
    ELSE Append(calls, [slot |-> slot, record |-> VertexRecord(v)])

\* GPTVertexPath::record_to_tree, lines 2073-2081: slots i, i + 1, ...
RECURSIVE PathRecordToTree(_, _, _, _)
PathRecordToTree(calls, path, i, path_index) ==
    IF i < path_index
    THEN PathRecordToTree(VertexRecordToTree(calls, path[i], i), path,
                          i + 1, path_index)
    ELSE calls

\* GPTVertexPath::add_vertex, line 2049
NotFullMut(path_index) == path_index <= PathCapacity
NotFull(path_index) == path_index < PathCapacity

\* The slots of a loop for(int i = 0; i < bound; ++i).
LoopSlots(bound) == {i \in 0 .. bound - 1 : TRUE}

IndirectBoundMut(path_index) == path_index

\* GPTVertexPath::add_indirect_radiance, line 2063: m_path_index - 1
IndirectBound(path_index) == path_index - 1

\* GPTVertex::add_radiance on the slots of a loop.
AddToSlots(path, slots, r) ==
    [i \in DOMAIN path |->
        IF i \in slots
        THEN [path[i] EXCEPT !.m_radiance = SpectrumPlus(@, r)]
        ELSE path[i]]

PathInit ==
    /\ vp_path = [i \in Slots |-> FreeSlot]
    /\ vp_index = 0
    /\ vp_adds = 0
    /\ vp_log = <<>>
    /\ vp_touched = {}
    /\ vp_last = [op |-> "none"]

Recording == vp_last.op # "record_to_tree"

\* GPTVertexPath::add_vertex, lines 2046-2051
PathAddVertex ==
    /\ Recording
    /\ \E vertex \in Vertices :
        IF NotFull(vp_index)
        THEN /\ vp_path' = [vp_path EXCEPT ![vp_index] = vertex]
             /\ vp_index' = vp_index + 1
             /\ vp_touched' = {vp_index}
             /\ vp_last' = [op |-> "add_vertex", vertex |-> vertex,
                            stored |-> TRUE]
        ELSE /\ vp_touched' = {}
             /\ vp_last' = [op |-> "add_vertex", vertex |-> vertex,
                            stored |-> FALSE]
             /\ UNCHANGED <<vp_path, vp_index>>
    /\ UNCHANGED <<vp_adds, vp_log>>
    /\ UNCHANGED besidePath

\* GPTVertexPath::add_radiance, lines 2053-2058
PathAddRadiance ==
    /\ Recording
    /\ vp_adds < MaxAdds
    /\ \E r \in Radiances :
        /\ vp_path' = AddToSlots(vp_path, LoopSlots(vp_index), r)
        /\ vp_touched' = LoopSlots(vp_index)
        /\ vp_last' = [op |-> "add_radiance", r |-> r]
    /\ vp_adds' = vp_adds + 1
    /\ UNCHANGED <<vp_index, vp_log>>
    /\ UNCHANGED besidePath

\* GPTVertexPath::add_indirect_radiance, lines 2060-2065
PathAddIndirectRadiance ==
    /\ Recording
    /\ vp_adds < MaxAdds
    /\ \E r \in Radiances :
        /\ vp_path' = AddToSlots(vp_path,
                                 LoopSlots(IndirectBound(vp_index)), r)
        /\ vp_touched' = LoopSlots(IndirectBound(vp_index))
        /\ vp_last' = [op |-> "add_indirect_radiance", r |-> r]
    /\ vp_adds' = vp_adds + 1
    /\ UNCHANGED <<vp_index, vp_log>>
    /\ UNCHANGED besidePath

\* GPTVertexPath::record_to_tree, lines 2073-2081, at the end of the path.
PathRecord ==
    /\ Recording
    /\ vp_log' = PathRecordToTree(vp_log, vp_path, 0, vp_index)
    /\ vp_touched' = LoopSlots(vp_index)
    /\ vp_last' = [op |-> "record_to_tree"]
    /\ UNCHANGED <<vp_path, vp_index, vp_adds>>
    /\ UNCHANGED besidePath

PathNext ==
    \/ PathAddVertex
    \/ PathAddRadiance
    \/ PathAddIndirectRadiance
    \/ PathRecord

(***************************************************************************)
(* PathGuidedSampler::sample.  Pdfs and fractions are fixed point numbers  *)
(* at Scale; what the BSDF, the D-tree and the radiance proxy answer is an *)
(* input of each call.                                                     *)
(***************************************************************************)
GuidingModes == {"PathGuiding", "ProductGuiding", "Combined"}

\* The bounce modes of the samplers that are explored.
SamplerBounceModes == {"Learn", "StrictlyGlossy", "PreferDiffuse"}

AllModes == {"Diffuse", "Glossy", "Specular"}
SamplingModeMasks == {{"Glossy", "Specular"}, AllModes}

\* Values of m_bsdf_sampling_fraction: never, half of the time, always.
SamplingFractions == {0, Scale \div 2, Scale}

\* m_product_sampling_fractions as the D-tree hands it out.
ProductFractions == [x |-> Scale \div 4, y |-> Scale \div 2]

\* The samplers that can be constructed: m_use_product_guiding is set only
\* in the two product modes (constructor, lines 421-425); at most one of
\* the three switches of the unguided path is off, and the samplers that
\* do not guide differ in nothing else.
GuidedConfigs ==
    {c \in [m_sd_tree_is_built : BOOLEAN,
            is_purely_specular : BOOLEAN,
            m_enable_path_guiding : BOOLEAN,
            m_use_product_guiding : BOOLEAN,
            m_guiding_mode : GuidingModes,
            m_guided_bounce_mode : SamplerBounceModes,
            m_bsdf_sampling_modes : SamplingModeMasks,
            m_bsdf_sampling_fraction : SamplingFractions,
            m_product_sampling_fractions : {ProductFractions}] :
        /\ c.m_use_product_guiding => c.m_guiding_mode # "PathGuiding"
        /\ c.m_guiding_mode = "ProductGuiding" => c.m_use_product_guiding
        /\ ~c.m_sd_tree_is_built =>
                ~c.is_purely_specular /\ c.m_enable_path_guiding
        /\ c.is_purely_specular => c.m_enable_path_guiding
        /\ (~c.m_sd_tree_is_built \/ c.is_purely_specular
                \/ ~c.m_enable_path_guiding) =>
                /\ c.m_guided_bounce_mode = "Learn"
                /\ c.m_bsdf_sampling_modes = AllModes
                /\ c.m_bsdf_sampling_fraction = Scale \div 2}

\* What the collaborators answer during one call.
BsdfSamples ==
    {[mode |-> "None", probability |-> 0],
     [mode |-> "Specular", probability |-> Scale],
     [mode |-> "Diffuse", probability |-> Scale \div 2],
     [mode |-> "Glossy", probability |-> 2 * Scale]}

Environments ==
    [bsdf_sample : BsdfSamples,
     bsdf_evaluate : {0, Scale \div 2},
     d_tree_pdf : {0, 2 * Scale},
     d_tree_sample_mode : {"None", "Diffuse", "Glossy"},
     proxy_pdf : {Scale}]

\* The uniform number of a call.
SamplerUniforms == {0, Scale - 1}

\* PathGuidedSampler::set_sampling_fractions, lines 720-739
set_sampling_fractions(c) ==
    IF c.m_guiding_mode = "Combined" /\ c.m_use_product_guiding
    THEN [bsdf |-> c.m_product_sampling_fractions.x,
          product |-> c.m_product_sampling_fractions.y]
    ELSE IF c.m_guiding_mode = "ProductGuiding" /\ c.m_use_product_guiding
         THEN [bsdf |-> c.m_bsdf_sampling_fraction, product |-> Scale]
         ELSE [bsdf |-> c.m_bsdf_sampling_fraction, product |-> 0]

\* foundation::lerp(a, b, t) = (1 - t) * a + t * b
lerp(a, b, t) == Div((Scale - t) * a + t * b, Scale)

Unguided(c) ==
    ~c.m_sd_tree_is_built \/ c.is_purely_specular \/ ~c.m_enable_path_guiding

\* PathGuidedSampler::guided_path_extension_pdf, lines 656-672
guided_path_extension_pdf(c, bsdf_pdf, d_tree_pdf, product_pdf, bsdf_fraction, product_fraction) ==
    IF Unguided(c)
    THEN bsdf_pdf
    ELSE lerp(lerp(d_tree_pdf, product_pdf, product_fraction),
              bsdf_pdf, bsdf_fraction)

\* PathGuidedSampler::enable_modes_before_sampling, lines 674-681
enable_modes_before_sampling(c) ==
    IF c.m_guided_bounce_mode = "Learn"
    THEN c.m_bsdf_sampling_modes
    ELSE {"Diffuse", "Glossy"}

has_diffuse(modes) == "Diffuse" \in modes
has_glossy(modes) == "Glossy" \in modes

\* PathGuidedSampler::set_mode_after_sampling, lines 683-718
set_mode_after_sampling(c, sampled_mode) ==
    CASE c.m_guided_bounce_mode = "Learn" -> sampled_mode
      [] c.m_guided_bounce_mode = "StrictlyDiffuse" ->
            IF has_diffuse(c.m_bsdf_sampling_modes) THEN "Diffuse" ELSE "None"
      [] c.m_guided_bounce_mode = "StrictlyGlossy" ->
            IF has_glossy(c.m_bsdf_sampling_modes) THEN "Glossy" ELSE "None"
      [] c.m_guided_bounce_mode = "PreferDiffuse" ->
            IF has_diffuse(c.m_bsdf_sampling_modes)
            THEN "Diffuse"
            ELSE IF has_glossy(c.m_bsdf_sampling_modes)
                 THEN "Glossy" ELSE "None"
      [] c.m_guided_bounce_mode = "PreferGlossy" ->
            IF has_glossy(c.m_bsdf_sampling_modes)
            THEN "Glossy"
            ELSE IF has_diffuse(c.m_bsdf_sampling_modes)
                 THEN "Diffuse" ELSE "None"

\* The calls on the D-tree and on the radiance proxy.
QueryDTree(c, what) ==
    [on |-> "d_tree", what |-> what, modes |-> enable_modes_before_sampling(c)]
QueryProxy(what) == [on |-> "radiance_proxy", what |-> what]

AllOutputs == {"wi_pdf", "d_tree_pdf", "product_pdf"}

\* The state a call of sample starts from: the caller's three floats and
\* its BSDFSample, nothing written, nothing queried.
CallStart(out, bsdf_sample) ==
    [out |-> out, written |-> {}, bsdf_sample |-> bsdf_sample,
     queries |-> <<>>, returned |-> FALSE, branch |-> "none"]

\* lines 507-531: the unguided path.
SampleUnguided(c, call, env) ==
    [call EXCEPT
        !.bsdf_sample = env.bsdf_sample,
        !.out = [d_tree_pdf |-> 0, product_pdf |-> 0,
                 wi_pdf |-> guided_path_extension_pdf(
                                c, env.bsdf_sample.probability, 0, 0,
                                Scale, 0)],
        !.written = AllOutputs,
        !.branch = "unguided"]

SpecularWiPdfMut(bsdf_fraction) == Scale - bsdf_fraction

\* line 560: wi_pdf = bsdf_sampling_fraction
SpecularWiPdf(bsdf_fraction) == bsdf_fraction

\* lines 542-585: the BSDF is sampled.
SampleBsdf(c, call, env, fractions) ==
    LET sampled == [call EXCEPT !.bsdf_sample = env.bsdf_sample]
    IN  CASE env.bsdf_sample.mode = "None" ->
                [sampled EXCEPT !.branch = "bsdf none"]
          [] env.bsdf_sample.mode = "Specular" ->
                [sampled EXCEPT
                    !.out = [d_tree_pdf |-> 0, product_pdf |-> 0,
                             wi_pdf |-> SpecularWiPdf(fractions.bsdf)],
                    !.written = AllOutputs,
                    !.branch = "bsdf specular"]
          [] OTHER ->
                LET product_pdf == IF c.m_use_product_guiding
                                   THEN env.proxy_pdf ELSE 0
                IN  [sampled EXCEPT
                        !.out = [d_tree_pdf |-> env.d_tree_pdf,
                                 product_pdf |-> product_pdf,
                                 wi_pdf |-> guided_path_extension_pdf(
                                                c,
                                                env.bsdf_sample.probability,
                                                env.d_tree_pdf, product_pdf,
                                                fractions.bsdf,
                                                fractions.product)],
                        !.written = AllOutputs,
                        !.queries =
                            (IF c.m_use_product_guiding
                             THEN <<QueryProxy("build_product"),
                                    QueryProxy("pdf")>>
                             ELSE <<>>) \o <<QueryDTree(c, "pdf")>>,
                        !.branch = "bsdf"]

\* line 590: std::min(s, 0.99999f)
MaxRenormalised == Scale - 1

\* lines 589-590
RenormaliseUniform(s, bsdf_fraction) ==
    Min(Div((s - bsdf_fraction) * Scale, Scale - bsdf_fraction),
        MaxRenormalised)

\* lines 586-653: the guided distributions are sampled.
SampleGuided(c, call, env, fractions, s) ==
    LET s2 == RenormaliseUniform(s, fractions.bsdf)
        build_product == IF c.m_use_product_guiding
                 THEN <<QueryProxy("build_product")>> ELSE <<>>
        from_product == s2 < fractions.product
        product_pdf == IF from_product \/ c.m_use_product_guiding
                       THEN env.proxy_pdf ELSE 0
        d_tree_sample ==
            IF from_product
            THEN [pdf |-> env.d_tree_pdf, scattering_mode |-> "Diffuse"]
            ELSE [pdf |-> IF env.d_tree_sample_mode = "None"
                          THEN 0 ELSE env.d_tree_pdf,
                  scattering_mode |-> env.d_tree_sample_mode]
        queries ==
            build_product \o
            (IF from_product
             THEN <<QueryProxy("sample"), QueryDTree(c, "pdf")>>
             ELSE <<QueryDTree(c, "sample")>>
                  \o (IF c.m_use_product_guiding
                      THEN <<QueryProxy("pdf")>> ELSE <<>>))
        scattering_mode ==
            set_mode_after_sampling(c, d_tree_sample.scattering_mode)
        sampled == [call EXCEPT !.out.product_pdf = product_pdf,
                                !.written = {"product_pdf"},
                                !.queries = queries,
                                !.returned = TRUE]
    IN  IF scattering_mode = "None"
        THEN [sampled EXCEPT
                !.bsdf_sample = [mode |-> "None", probability |-> 0],
                !.branch = "guided none"]
        ELSE IF env.bsdf_evaluate = 0
             THEN [sampled EXCEPT
                    !.out.d_tree_pdf = d_tree_sample.pdf,
                    !.written = {"product_pdf", "d_tree_pdf"},
                    !.bsdf_sample = [mode |-> "None", probability |-> 0],
                    !.branch = "guided rejected"]
             ELSE [sampled EXCEPT
                    !.out.d_tree_pdf = d_tree_sample.pdf,
                    !.out.wi_pdf = guided_path_extension_pdf(
                                        c, env.bsdf_evaluate,
                                        d_tree_sample.pdf, product_pdf,
                                        fractions.bsdf, fractions.product),
                    !.written = AllOutputs,
                    !.bsdf_sample = [mode |-> scattering_mode,
                                     probability |-> env.bsdf_evaluate],
                    !.branch = "guided"]

\* PathGuidedSampler::sample, lines 499-654, whole.
GuidedSample(c, out, bsdf_sample, s, env) ==
    LET call == CallStart(out, bsdf_sample)
        fractions == set_sampling_fractions(c)
    IN  IF Unguided(c)
        THEN SampleUnguided(c, call, env)
        ELSE IF s < fractions.bsdf
             THEN SampleBsdf(c, call, env, fractions)
             ELSE SampleGuided(c, call, env, fractions, s)

\* The caller's floats before the call, which it need not have set, and
\* its BSDFSample.
NoOutputs == [wi_pdf |-> 0, d_tree_pdf |-> 0, product_pdf |-> 0]
StaleOutputs == [wi_pdf |-> 3 * Scale, d_tree_pdf |-> 5 * Scale, product_pdf |-> 7 * Scale]
CallerFloats == {NoOutputs, StaleOutputs}
NoBsdfSample == [mode |-> "None", probability |-> 0]

GuidedInit ==
    /\ gs_config \in GuidedConfigs
    /\ gs_call = CallStart(NoOutputs, NoBsdfSample)
    /\ gs_last = [op |-> "none"]

\* One call of sample with the caller's floats and a new BSDFSample.
Sample ==
    /\ \E s \in SamplerUniforms, env \in Environments, out \in CallerFloats :
        /\ gs_call' = GuidedSample(gs_config, out, NoBsdfSample, s, env)
        /\ gs_last' = [op |-> "sample", s |-> s,
                       bsdf_mode |-> env.bsdf_sample.mode,
                       before |-> out]
    /\ UNCHANGED gs_config
    /\ UNCHANGED besideGuided

GuidedNext == Sample

(***************************************************************************)
(* States of the parts a specification does not run.                       *)
(***************************************************************************)
PassIdle ==
    /\ pc = "done"
    /\ m_params = [iteration_progression |-> "Automatic",
                   samples_per_pass |-> 64]
    /\ m_max_passes = 0
    /\ m_remaining_passes = 0
    /\ m_passes_left_curr_iter = 0
    /\ m_num_passes_curr_iter = 0
    /\ m_passes_rendered = 0
    /\ m_last_extrapolated_variance = Infinity
    /\ m_iter = 0
    /\ m_is_final_iter = FALSE
    /\ m_var_increase = FALSE
    /\ m_image_buffer = <<>>
    /\ m_inverse_variance_buffer = <<>>
    /\ aborted = FALSE
    /\ finished = FALSE
    /\ fb_passes = 0
    /\ sd_final_calls = 0
    /\ sd_build_calls = 0
    /\ fb_clear_calls = 0
    /\ fb_frame = <<>>
    /\ last_call = "none"

DTreeIdle ==
    /\ d_params = MakeParams("Fixed", "Learn")
    /\ d_tree = DTreeNew

ThreadIdle ==
    /\ t_pc = <<>>
    /\ t_rec = <<>>
    /\ t_current = <<>>
    /\ s_pc = "done"
    /\ s_fraction = 0
    /\ t_before = <<>>
    /\ lock_owner = 0
    /\ unlocked_access = {}

QuadIdle ==
    /\ q_phase = "idle"
    /\ q_records = 0
    /\ q_cycles = 0
    /\ q_last = [op |-> "none"]

STreeIdle ==
    /\ st_params = MakeParams("Fixed", "Learn")
    /\ st_nodes = <<>>
    /\ st_is_built = FALSE
    /\ st_phase = "idle"
    /\ st_iter = 0
    /\ st_required = 0
    /\ st_records = 0
    /\ st_last = [op |-> "none"]

CoreIdle == PassIdle /\ DTreeIdle /\ ThreadIdle /\ QuadIdle

SampleIdle ==
    /\ ds_sample = <<>>
    /\ ds_pdf = 0
    /\ ds_last = [op |-> "none"]

AdamIdle ==
    /\ ad_kind = AllFinite
    /\ ad_copy = NoCopy
    /\ ad_steps = 0
    /\ ad_last = [op |-> "none"]

PathIdle ==
    /\ vp_path = <<>>
    /\ vp_index = 0
    /\ vp_adds = 0
    /\ vp_log = <<>>
    /\ vp_touched = {}
    /\ vp_last = [op |-> "none"]

GuidedIdle ==
    /\ gs_config = <<>>
    /\ gs_call = <<>>
    /\ gs_last = [op |-> "none"]

JobIdle ==
    /\ jq_scheduled = <<>>
    /\ jq_running = <<>>
    /\ jq_log = <<>>
    /\ jq_done = {}
    /\ jq_peak = 0

ProxyIdle ==
    /\ px_proxy = [is_built |-> FALSE]
    /\ px_sampler = [is_built |-> FALSE]

RootIdle ==
    /\ rt_current = "finite"
    /\ rt_previous = "finite"

AuxIdle == STreeIdle /\ SampleIdle /\ AdamIdle /\ PathIdle /\ GuidedIdle /\ JobIdle /\ ProxyIdle /\ RootIdle

(***************************************************************************)
(* Specifications.                                                         *)
(***************************************************************************)
PassNext ==
    \/ on_pass_begin
    \/ RenderPass
    \/ on_pass_end
    \/ Abort

PassStart == PassInit /\ DTreeIdle /\ ThreadIdle /\ QuadIdle /\ AuxIdle

PassSpec == PassStart /\ [][PassNext]_vars

QuadStart == QuadInit /\ PassIdle /\ ThreadIdle /\ AuxIdle

QuadSpec == QuadStart /\ [][QuadNext]_vars

RecStart == RecInit /\ PassIdle /\ QuadIdle /\ AuxIdle

RecSpec == RecStart /\ [][RecNext]_vars

STreeStart == STreeInit /\ CoreIdle /\ SampleIdle /\ AdamIdle /\ PathIdle /\ GuidedIdle /\ JobIdle /\ ProxyIdle /\ RootIdle

SampleStart == SampleInit /\ PassIdle /\ ThreadIdle /\ QuadIdle /\ STreeIdle /\ AdamIdle /\ PathIdle /\ GuidedIdle /\ JobIdle /\ ProxyIdle /\ RootIdle

SampleSpec == SampleStart /\ [][SampleNext]_vars

STreeSpec == STreeStart /\ [][STreeNext]_vars

\* STree::build runs on the one driver thread: once it has built the sums
\* it goes on splitting and then restructures.  The second condition is
\* WF_vars(STreeRestructure) with ENABLED written out as SubdivideDone.
STreeLiveSpec == STreeSpec /\ WF_vars(STreeSplit) /\ ([]<>~SubdivideDone \/ []<><<STreeRestructure>>_vars)

AdamStart == AdamInit /\ PassIdle /\ ThreadIdle /\ QuadIdle /\ STreeIdle /\ SampleIdle /\ PathIdle /\ GuidedIdle /\ JobIdle /\ ProxyIdle /\ RootIdle

AdamSpec == AdamStart /\ [][AdamNext]_vars

PathStart == PathInit /\ CoreIdle /\ STreeIdle /\ SampleIdle /\ AdamIdle /\ GuidedIdle /\ JobIdle /\ ProxyIdle /\ RootIdle

PathSpec == PathStart /\ [][PathNext]_vars

GuidedStart == GuidedInit /\ CoreIdle /\ STreeIdle /\ SampleIdle /\ AdamIdle /\ PathIdle /\ JobIdle /\ ProxyIdle /\ RootIdle

GuidedSpec == GuidedStart /\ [][GuidedNext]_vars

FilterStart == FilterInit /\ CoreIdle /\ SampleIdle /\ AdamIdle /\ PathIdle /\ GuidedIdle /\ JobIdle /\ ProxyIdle /\ RootIdle

JobStart == JobInit /\ CoreIdle /\ SampleIdle /\ AdamIdle /\ PathIdle /\ GuidedIdle /\ ProxyIdle /\ RootIdle

ProxyStart == ProxyInit /\ PassIdle /\ ThreadIdle /\ STreeIdle /\ SampleIdle /\ AdamIdle /\ PathIdle /\ GuidedIdle /\ JobIdle /\ RootIdle

RootStart == RootInit /\ PassIdle /\ ThreadIdle /\ STreeIdle /\ SampleIdle /\ AdamIdle /\ PathIdle /\ GuidedIdle /\ JobIdle /\ ProxyIdle

FilterSpec == FilterStart /\ [][FilterNext]_vars

JobSpec == JobStart /\ [][JobNext]_vars

ProxySpec == ProxyStart /\ [][ProxyNext]_vars

RootSpec == RootStart /\ [][RootNext]_vars

C2_Original ==
    /\ sd_final_calls <= 1
    /\ (pc = "done" /\ ~aborted) => sd_final_calls = 1
    /\ (sd_final_calls = 1 /\ pc # "done") =>
           /\ m_is_final_iter
           /\ m_passes_left_curr_iter = m_remaining_passes
    /\ (m_var_increase /\ pc = "render") => sd_final_calls = 1

\* C3: a new iteration has min(2^iter, remaining) passes; it is made final
\* (all remaining passes, is_final_iter set, start_final_iteration called)
\* exactly when is_final_iter was set or the budget left after it is less
\* than twice its length; otherwise it keeps its own length and
\* start_final_iteration is not called.
C3_NewIterationBudget ==
    [][(pc = "begin" /\ pc' = "render" /\ m_passes_left_curr_iter = 0) =>
        LET two_pow == Pow2(m_iter)
            n == IF two_pow < m_remaining_passes
                 THEN two_pow ELSE m_remaining_passes
            final == m_is_final_iter \/ m_remaining_passes - n < 2 * n
        IN  /\ m_num_passes_curr_iter' = n
            /\ final =>
                 /\ m_passes_left_curr_iter' = m_remaining_passes
                 /\ m_is_final_iter'
                 /\ sd_final_calls' = sd_final_calls + 1
            /\ ~final =>
                 /\ m_passes_left_curr_iter' = n
                 /\ ~m_is_final_iter'
                 /\ sd_final_calls' = sd_final_calls]_vars

\* C3 witness: both kinds of iteration have started: a non-final one of
\* four passes earlier and now a final one that absorbed the rest.
C3_Witness ==
    /\ last_call = "begin_new_iter"
    /\ m_is_final_iter /\ sd_final_calls = 1
    /\ m_iter = 4 /\ m_num_passes_curr_iter = 8
    /\ m_passes_left_curr_iter > m_num_passes_curr_iter

\* C4: STree::build and the framebuffer clear happen only in on_pass_begin
\* at the start of a new iteration, always together, and exactly when the
\* iteration index is > 0 and var_increase is false; so never while a pass
\* of an iteration is outstanding, and never for the final iteration that
\* follows a variance rise.
C4_BuildOnlyAtIterationStart ==
    [][LET built == sd_build_calls' # sd_build_calls
           cleared == fb_clear_calls' # fb_clear_calls
           start == /\ pc = "begin" /\ pc' = "render"
                    /\ m_passes_left_curr_iter = 0
       IN  /\ built <=> cleared
           /\ built <=> (start /\ m_iter > 0 /\ ~m_var_increase)
           /\ built => /\ sd_build_calls' = sd_build_calls + 1
                       /\ fb_clear_calls' = fb_clear_calls + 1
                       /\ fb_passes' = 0
           /\ (start /\ m_var_increase) => fb_passes' = fb_passes]_vars

\* C4 witness: after two builds the variance rose, and the final iteration
\* has started without a further build or clear.
C4_Witness ==
    /\ m_var_increase /\ last_call = "begin_new_iter"
    /\ sd_build_calls = 2 /\ fb_clear_calls = 2
    /\ fb_passes > 0

\* C5: on_pass_end sets var_increase and is_final_iter only at an iteration
\* boundary of an unfinished run and only when progression is Automatic,
\* passes_rendered * samples_per_pass > 256 and the extrapolated variance
\* variance * passes_in_curr_iter / (remaining + passes_in_curr_iter) is
\* strictly above the last one; never at the first boundary, never in
\* Combine; last_extrapolated_variance is updated at every boundary.
C5_VarianceRiseTrigger ==
    /\ [][(pc = "end" /\ pc' # "end") =>
          LET boundary == m_passes_left_curr_iter' = 0 /\ ~finished'
              cond == /\ m_params.iteration_progression = "Automatic"
                      /\ m_passes_rendered' * m_params.samples_per_pass > 256
                      /\ m_last_extrapolated_variance'.num
                           * m_last_extrapolated_variance.den
                         > m_last_extrapolated_variance.num
                           * m_last_extrapolated_variance'.den
          IN  IF boundary
              THEN /\ \E v \in Variances :
                        m_last_extrapolated_variance' =
                            [num |-> v * m_num_passes_curr_iter,
                             den |-> m_remaining_passes'
                                     + m_num_passes_curr_iter]
                   /\ cond => (m_var_increase' /\ m_is_final_iter')
                   /\ ~cond => UNCHANGED <<m_var_increase, m_is_final_iter>>
                   /\ m_last_extrapolated_variance = Infinity =>
                        UNCHANGED <<m_var_increase, m_is_final_iter>>
              ELSE UNCHANGED <<m_var_increase, m_is_final_iter,
                               m_last_extrapolated_variance>>]_vars
    /\ [](m_params.iteration_progression = "Combine" => ~m_var_increase)

\* C5 witness: the trigger has fired at a boundary that was not the first.
C5_Witness ==
    /\ m_var_increase /\ m_is_final_iter
    /\ last_call = "end_boundary"
    /\ m_passes_rendered = 7

(***************************************************************************)
(* Properties of the DTree and its quadtree (checked under QuadSpec).      *)
(***************************************************************************)
Root == d_tree.m_root_node

ChildrenSum(tree, p) ==
    tree[ChildPath(p, UpperLeft)].previous_sum
    + tree[ChildPath(p, UpperRight)].previous_sum
    + tree[ChildPath(p, LowerRight)].previous_sum
    + tree[ChildPath(p, LowerLeft)].previous_sum

\* C8: a record with is_delta = true or wi_pdf <= 0 leaves the running
\* sample weight and every node's current_sum unchanged; it updates the Adam
\* state exactly when the sampling fraction mode is Learn, the DTree has
\* been restructured at least once and product > 0.
C8_SkippedRecordEffect ==
    [][(q_records' = q_records + 1
        /\ (q_last'.rec.is_delta \/ q_last'.rec.wi_pdf <= 0)) =>
        LET learns == /\ d_params.bsdf_sampling_fraction_mode = "Learn"
                      /\ d_tree.m_is_built
                      /\ q_last'.rec.product > 0
        IN  /\ d_tree'.m_current_iter_sample_weight
                 = d_tree.m_current_iter_sample_weight
            /\ DOMAIN Root' = DOMAIN Root
            /\ \A p \in DOMAIN Root :
                 Root'[p].current_sum = Root[p].current_sum
            /\ learns =>
                 d_tree'.m_optimization_step_count
                     = d_tree.m_optimization_step_count + 1
            /\ ~learns => AdamState(d_tree') = AdamState(d_tree)]_vars

\* C8 witness: a delta record of radiance 5 and product > 0 has been made
\* into a built DTree in Learn mode, whose optimiser has moved.
C8_Witness ==
    /\ q_last.op = "record" /\ q_last.rec = RecDelta
    /\ d_params.bsdf_sampling_fraction_mode = "Learn"
    /\ d_tree.m_is_built
    /\ d_tree.m_optimization_step_count = 1
    /\ d_tree.m_theta # 0
    /\ d_tree.m_current_iter_sample_weight = 0

\* C9: after restructure with threshold tau on a tree of total > 0 every
\* leaf has previous_sum / total <= tau or sits at depth 20, every internal
\* node has previous_sum / total > tau and depth < 20, and no node is
\* deeper than 20 (so the recursion is bounded).
C9_SubdivisionCriterion ==
    q_last.op = "restructure" =>
        LET total == Root[<<>>].previous_sum
            tau == DTreeThreshold
        IN  /\ total > 0
            /\ \A p \in DOMAIN Root :
                /\ NodeDepth(p) <= 20
                /\ Root[p].is_leaf =>
                     \/ Root[p].previous_sum * tau.den <= tau.num * total
                     \/ NodeDepth(p) = 20
                /\ ~Root[p].is_leaf =>
                     /\ Root[p].previous_sum * tau.den > tau.num * total
                     /\ NodeDepth(p) < 20

\* C9 witness: a restructure has left a leaf at depth 20 that still holds
\* more than tau of the total, next to leaves above it that do not.
C9_Witness ==
    /\ q_last.op = "restructure"
    /\ \E p \in DOMAIN Root :
        /\ Root[p].is_leaf /\ NodeDepth(p) = 20
        /\ Root[p].previous_sum * 100 > Root[<<>>].previous_sum
    /\ \E p \in DOMAIN Root :
        /\ Root[p].is_leaf /\ NodeDepth(p) < 20
        /\ Root[p].previous_sum > 0

\* C10: after build_sums every internal node's previous_sum is the sum of
\* its children's and every leaf's previous_sum is its current_sum;
\* restructure preserves the sums (a new child gets a quarter of its
\* parent's previous_sum, a surviving node keeps its previous_sum); and a
\* node has children exactly when it is not a leaf.
C10_SumInvariant ==
    /\ [](/\ \A p \in DOMAIN Root :
               /\ ~Root[p].is_leaf => ChildPaths(p) \subseteq DOMAIN Root
               /\ Root[p].is_leaf => ChildPaths(p) \cap DOMAIN Root = {}
               /\ ~Root[p].is_leaf => Root[p].previous_sum = ChildrenSum(Root, p)
               /\ p # <<>> => SubSeq(p, 1, Len(p) - 1) \in DOMAIN Root
          /\ q_last.op = "build" =>
               \A p \in DOMAIN Root :
                   Root[p].is_leaf =>
                       Root[p].previous_sum = Root[p].current_sum)
    /\ [][q_phase = "built" =>
            /\ \A p \in DOMAIN Root \cap DOMAIN Root' :
                 Root'[p].previous_sum = Root[p].previous_sum
            /\ \A p \in DOMAIN Root' \ DOMAIN Root :
                 4 * Root'[p].previous_sum
                     = Root'[SubSeq(p, 1, Len(p) - 1)].previous_sum]_vars

\* C10 witness: a restructure has split leaves into children holding
\* radiance and has collapsed internal nodes.
C10_Witness ==
    /\ q_last.op = "restructure"
    /\ q_last.split # {} /\ q_last.collapsed # {}
    /\ \E p \in q_last.split :
         Root[ChildPath(p, UpperLeft)].previous_sum > 0
    /\ \E p \in q_last.collapsed : Root[p].previous_sum = 0

(***************************************************************************)
(* Properties of concurrent records (checked under RecSpec).               *)
(***************************************************************************)
RECURSIVE Sum(_, _)
Sum(f, S) ==
    IF S = {}
    THEN 0
    ELSE LET x == CHOOSE y \in S : TRUE
         IN  f[x] + Sum(f, S \ {x})

\* The record of thread t contributes to leaf p.
RoutedTo(t, p) ==
    /\ ~IsSkipped(t_rec[t])
    /\ LeafOf(t_before.m_root_node, <<>>, t_rec[t].direction) = p

\* The tree with the contributions of the threads in S added to the leaves
\* they are routed to, one thread after another in a fixed order.
RECURSIVE WithContributions(_, _)
WithContributions(tree, S) ==
    IF S = {}
    THEN tree
    ELSE LET t == CHOOSE u \in S : TRUE
         IN  WithContributions(
                 add_radiance(tree, t_rec[t].direction,
                              WeightedRadiance(t_rec[t])),
                 S \ {t})

\* C6: in every interleaving of concurrent records, each leaf's current_sum
\* is its value before the records plus the contributions of the records
\* routed to it whose add has completed, and the running sample weight is
\* its value before plus the weights added so far; so once all threads are
\* done every sum is the value before plus all contributions, whatever the
\* order, and no update is lost.
C6_NoLostUpdate ==
    /\ d_tree.m_root_node
         = WithContributions(t_before.m_root_node,
               {t \in Threads :
                   t_pc[t] = "done" /\ ~IsSkipped(t_rec[t])})
    /\ d_tree.m_current_iter_sample_weight
         = t_before.m_current_iter_sample_weight
           + Sum([t \in Threads |-> t_rec[t].sample_weight],
                 {t \in Threads :
                     /\ t_pc[t] \in {"leaf_load", "leaf_cas", "done"}
                     /\ ~IsSkipped(t_rec[t])})

\* C6 witness: a thread is about to compare-exchange a leaf with a stale
\* value, because another thread's add to the same leaf got in between.
C6_Witness ==
    \E t, u \in Threads :
        /\ t # u
        /\ t_pc[t] = "leaf_cas" /\ t_pc[u] = "done"
        /\ RoutedTo(u, LeafFor(t))
        /\ t_current[t] # d_tree.m_root_node[LeafFor(t)].current_sum
        /\ t_before.m_root_node[LeafFor(t)].current_sum > 0

InAdamSection(t) == t_pc[t] \in {"adam_update", "adam_clamp", "release"}

\* C7: every read or write of the Adam state during a pass, the sampler's
\* read of theta included, is made by the thread that holds the DTree's
\* spin lock; two threads are never inside the locked section together;
\* and a thread past the Adam step has released the lock.
C7_Original ==
    /\ unlocked_access = {}
    /\ \A t, u \in Threads :
         InAdamSection(t) /\ InAdamSection(u) => t = u
    /\ \A t \in Threads :
         t_pc[t] \in {"filter", "weight_cas", "leaf_load", "leaf_cas", "done"}
             => lock_owner # t
    /\ (\A t \in Threads : t_pc[t] = "done") => ~d_tree.m_atomic_flag


(***************************************************************************)
(* Properties of the STree (checked under STreeSpec).                      *)
(***************************************************************************)
\* C11: right after a leaf of the STree is split, each of the two children
\* holds a DTree that is a copy of the parent's (the same quadtree with its
\* sums, the same Adam state) whose sample weight is half of what the
\* parent held before the split; the two halves add up to the parent's
\* weight.
C11_SplitHalvesWeight ==
    st_last.op = "split" =>
        LET parent == st_last.parent.m_d_tree
            first == st_nodes[Append(st_last.path, 0)].m_d_tree
            second == st_nodes[Append(st_last.path, 1)].m_d_tree
        IN  /\ \A child \in {first, second} :
                /\ child.m_root_node = parent.m_root_node
                /\ AdamState(child) = AdamState(parent)
                /\ 2 * child.m_current_iter_sample_weight
                     = parent.m_current_iter_sample_weight
            /\ first.m_current_iter_sample_weight
                 + second.m_current_iter_sample_weight
                 = parent.m_current_iter_sample_weight

\* A split of a trained leaf: its Adam state has moved and it holds more
\* than the required samples.
C11_Witness ==
    /\ st_last.op = "split"
    /\ st_last.parent.m_d_tree.m_theta # 0
    /\ st_last.parent.m_d_tree.m_optimization_step_count > 0
    /\ st_last.parent.m_d_tree.m_current_iter_sample_weight
         > st_required * WeightUnit
    /\ Cardinality(DOMAIN st_last.parent.m_d_tree.m_root_node) > 1


(***************************************************************************)
(* Properties of sampling (checked under SampleSpec).                      *)
(***************************************************************************)
\* A DTree that DTree::sample and DTree::pdf do not answer by the uniform
\* fallback.
IsBuiltDTree(d) ==
    /\ d.m_previous_iter_sample_weight > 0
    /\ d.m_root_node[<<>>].previous_sum > 0

C14_FallbackState ==
    \/ d_tree.m_previous_iter_sample_weight <= 0
    \/ Root[<<>>].previous_sum <= 0

\* C14 (as stated): whenever previous_sample_weight <= 0 or the root's
\* previous_sum <= 0, DTree::sample is a uniform sphere sample with pdf
\* 1 / (4 pi) and DTree::pdf returns 1 / (4 pi) for every direction.
C14_Original ==
    C14_FallbackState =>
        /\ ds_last.op = "sample" =>
              /\ ds_sample.pdf = Frac(1, 1)
              /\ ds_sample.direction = sample_sphere_uniform(ds_last.s)
        /\ ds_last.op = "pdf" => ds_pdf = Frac(1, 1)

\* C14: whenever previous_sample_weight <= 0 or the root's previous_sum
\* <= 0, and the requested modes include the DTree's scattering mode,
\* DTree::sample is a uniform sphere sample with pdf 1 / (4 pi) and mode
\* Diffuse, and DTree::pdf returns 1 / (4 pi) for every direction; when
\* the requested modes exclude the scattering mode, DTree::sample returns
\* mode None with pdf 0 and DTree::pdf returns 0.
C14_FallbackUnlessMasked ==
    (C14_FallbackState /\ ds_last.op # "none") =>
        IF d_tree.m_scattering_mode \in ds_last.modes
        THEN /\ ds_last.op = "sample" =>
                  /\ ds_sample.pdf = Frac(1, 1)
                  /\ ds_sample.direction = sample_sphere_uniform(ds_last.s)
                  /\ ds_sample.scattering_mode = "Diffuse"
             /\ ds_last.op = "pdf" => ds_pdf = Frac(1, 1)
        ELSE /\ ds_last.op = "sample" =>
                  /\ ds_sample.pdf = Frac(0, 1)
                  /\ ds_sample.scattering_mode = "None"
             /\ ds_last.op = "pdf" => ds_pdf = Frac(0, 1)

\* A DTree that gathered sample weight but no radiance was sampled by the
\* fallback and then asked for the pdf of another direction.
C14_Witness ==
    /\ d_tree.m_previous_iter_sample_weight > 0
    /\ Root[<<>>].previous_sum <= 0
    /\ ds_last.op = "pdf"
    /\ d_tree.m_scattering_mode \in ds_last.modes
    /\ ds_last.direction # ds_sample.direction
    /\ ds_pdf = Frac(1, 1)
    /\ ds_sample.pdf = Frac(1, 1)
    /\ ds_sample.scattering_mode = "Diffuse"

(***************************************************************************)
(* The pdf of a DTree over the whole sphere (checked under QuadSpec).      *)
(***************************************************************************)
FracPlus(a, b) == Frac(a.num * b.den + b.num * a.den, a.den * b.den)

\* 4 pi times the pdf QuadTreeNode::pdf returns inside the leaf at path p,
\* times the leaf's share 4^-depth of the square, for the first i levels
\* of the path: every level quarters the area and multiplies the factor of
\* the child that choose_node selects.
RECURSIVE LeafPdfArea(_, _, _)
LeafPdfArea(tree, p, i) ==
    IF i = 0
    THEN Frac(1, 1)
    ELSE FracTimes(LeafPdfArea(tree, p, i - 1),
                   FracTimes(Frac(1, 4),
                             PdfFactor(tree[SubSeq(p, 1, i)].previous_sum,
                                       tree[SubSeq(p, 1, i - 1)].previous_sum)))

\* LeafPdfArea of the leaf at path p as a multiple of 1 / unit; a value
\* that is no multiple of it counts as more than the whole.
LeafPdfAreaUnits(tree, p, unit) ==
    LET area == LeafPdfArea(tree, p, Len(p))
    IN  IF unit % area.den = 0
        THEN area.num * (unit \div area.den)
        ELSE unit + 1

\* The sum of LeafPdfArea over the leaves below the node at path p, in
\* multiples of 1 / unit.
RECURSIVE PdfIntegral(_, _, _)
PdfIntegral(tree, p, unit) ==
    IF tree[p].is_leaf
    THEN LeafPdfAreaUnits(tree, p, unit)
    ELSE PdfIntegral(tree, ChildPath(p, UpperLeft), unit)
         + PdfIntegral(tree, ChildPath(p, UpperRight), unit)
         + PdfIntegral(tree, ChildPath(p, LowerRight), unit)
         + PdfIntegral(tree, ChildPath(p, LowerLeft), unit)

ThetaInRange(d, kind) ==
    kind.theta = "finite" /\ d.m_theta >= ThetaMin /\ d.m_theta <= ThetaMax

\* C15: after any sequence of Adam steps, whatever the records that pass
\* the Adam condition, and across restructures and STree splits, the theta
\* of every DTree is a number in [-20, 20].
C15_Original ==
    /\ ThetaInRange(d_tree, ad_kind)
    /\ ad_copy.made => ThetaInRange(ad_copy.tree, ad_copy.kind)

\* The gradient of the last Adam update.
LastGradient == ad_last.gradient

IsAdamUpdate == ad_last.op = "record" /\ ad_last.stepped

IsBad(f) == f.kind \in {"nan", "inf", "-inf"} \/ f.v < 0

HasBadChannel(v) ==
    \E i \in Channels : IsBad(v.m_radiance[i]) \/ IsBad(v.m_bsdf_value[i])

StoredSlots == {i \in Slots : i < vp_index}

LoggedSlots == {vp_log[k].slot : k \in DOMAIN vp_log}

\* C17: record_to_tree calls STree::record for none of the stored vertices
\* that have a NaN, infinite or negative channel of radiance or bsdf_value,
\* and for every other stored vertex once, in path order; no other
\* operation of the path calls STree::record.
C17_BadVertexSkipped ==
    IF vp_last.op = "record_to_tree"
    THEN /\ LoggedSlots = {i \in StoredSlots : ~HasBadChannel(vp_path[i])}
         /\ \A j, k \in DOMAIN vp_log : j < k => vp_log[j].slot < vp_log[k].slot
         /\ \A k \in DOMAIN vp_log :
                vp_log[k].record = VertexRecord(vp_path[vp_log[k].slot])
    ELSE vp_log = <<>>

\* A full path recorded: its first vertex was skipped for a bad channel and
\* a later one was recorded.
C17_Witness ==
    /\ vp_last.op = "record_to_tree"
    /\ vp_index = PathCapacity
    /\ HasBadChannel(vp_path[0])
    /\ vp_log # <<>>

IsSound(f) == f.kind = "finite" /\ f.v >= 0

\* C18: whatever the radiance, throughput and bsdf_value of the vertices,
\* every record that record_to_tree hands to STree::record has a finite,
\* non-negative radiance, product and sample_weight.
C18_Original ==
    \A k \in DOMAIN vp_log :
        /\ IsSound(vp_log[k].record.radiance)
        /\ IsSound(vp_log[k].record.product)
        /\ IsSound(vp_log[k].record.sample_weight)

RadianceOf(path, i) == path[i].m_radiance

\* The slots below a bound.
Below(bound) == {i \in Slots : i < bound}

\* What a step adds to the radiance of the slots in added, all else kept.
AddsExactly(added, r) ==
    /\ vp_index' = vp_index
    /\ \A i \in Slots :
        IF i \in added
        THEN vp_path'[i] =
                [vp_path[i] EXCEPT !.m_radiance = SpectrumPlus(@, r)]
        ELSE vp_path'[i] = vp_path[i]
    /\ vp_touched' = added

\* C20: with n stored vertices, add_vertex stores the vertex in slot n while
\* n is below the capacity and changes nothing otherwise; add_radiance(r)
\* adds r to the radiance of exactly the n stored vertices;
\* add_indirect_radiance(r) adds r to exactly the first n - 1 of them, to
\* none when n is 0 or 1; no call accesses a slot beyond the stored ones.
C20_PathOperations ==
    [][/\ vp_index' \in 0 .. PathCapacity
       /\ vp_touched' \subseteq Below(vp_index')
       /\ vp_last'.op = "add_vertex" =>
            IF vp_index < PathCapacity
            THEN /\ vp_index' = vp_index + 1
                 /\ vp_path' = [vp_path EXCEPT ![vp_index] = vp_last'.vertex]
                 /\ vp_touched' = {vp_index}
            ELSE /\ vp_index' = vp_index
                 /\ vp_path' = vp_path
                 /\ vp_touched' = {}
       /\ vp_last'.op = "add_radiance" =>
            AddsExactly(Below(vp_index), vp_last'.r)
       /\ vp_last'.op = "add_indirect_radiance" =>
            /\ AddsExactly(Below(vp_index - 1), vp_last'.r)
            /\ vp_index <= 1 => vp_path' = vp_path]_vars

\* add_indirect_radiance has run on a full path: the last vertex holds no
\* radiance and the first one does.
C20_Witness ==
    /\ vp_last.op = "add_indirect_radiance"
    /\ vp_index = PathCapacity
    /\ RadianceOf(vp_path, vp_index - 1) = Uniform(Finite(0))
    /\ RadianceOf(vp_path, 0) # Uniform(Finite(0))

(***************************************************************************)
(* Properties of the guided sampler (checked under GuidedSpec).            *)
(***************************************************************************)
\* The last call ran with guiding enabled, its uniform number fell below
\* the BSDF sampling fraction, and the BSDF answered with the given mode.
BsdfBranchWith(mode) ==
    /\ gs_last.op = "sample"
    /\ gs_config.m_sd_tree_is_built
    /\ ~gs_config.is_purely_specular
    /\ gs_config.m_enable_path_guiding
    /\ gs_last.s < set_sampling_fractions(gs_config).bsdf
    /\ gs_last.bsdf_mode = mode

\* C19: with guiding enabled and the uniform number below the BSDF sampling
\* fraction a, a Specular BSDF sample leaves wi_pdf = a and d_tree_pdf =
\* product_pdf = 0; a BSDF sample of mode None makes the call return with
\* wi_pdf, d_tree_pdf and product_pdf not written; in both cases neither
\* the D-tree nor the radiance proxy is queried, and the call returns false.
C19_BsdfSpecularAndNone ==
    /\ BsdfBranchWith("Specular") =>
        /\ gs_call.out.wi_pdf = set_sampling_fractions(gs_config).bsdf
        /\ gs_call.out.d_tree_pdf = 0
        /\ gs_call.out.product_pdf = 0
        /\ gs_call.queries = <<>>
        /\ ~gs_call.returned
    /\ BsdfBranchWith("None") =>
        /\ gs_call.written = {}
        /\ gs_call.out = gs_last.before
        /\ gs_call.queries = <<>>
        /\ ~gs_call.returned

\* A Specular BSDF sample after a call that left other values in the three
\* floats, with a fraction a that is neither 0 nor 1.
C19_Witness ==
    /\ BsdfBranchWith("Specular")
    /\ gs_last.before.d_tree_pdf > 0
    /\ gs_last.before.wi_pdf # gs_call.out.wi_pdf
    /\ gs_call.out.wi_pdf \notin {0, Scale}

\* C21: when STree::build returns, every leaf DTree holds a running sample
\* weight of 0 and every node of its quadtree a running sum of 0, both in
\* the DTrees that were restructured (total > 0) and in those that were
\* reset (total <= 0).
C21_BuildClearsRunningSums ==
    st_last.op = "restructure" =>
        \A path \in STreeLeaves(st_nodes) :
            LET d == st_nodes[path].m_d_tree
            IN  /\ d.m_current_iter_sample_weight = 0
                /\ \A p \in DOMAIN d.m_root_node :
                       d.m_root_node[p].current_sum = 0

\* STree::build has returned with one leaf whose DTree was reset although
\* the pass gave it weight, next to a leaf whose DTree was restructured and
\* received new children.
C21_Witness ==
    /\ st_last.op = "restructure"
    /\ \E path \in STreeLeaves(st_nodes) :
          LET d == st_nodes[path].m_d_tree
          IN  /\ d.m_previous_iter_sample_weight > 0
              /\ d.m_root_node[<<>>].previous_sum = 0
    /\ \E path \in STreeLeaves(st_nodes) :
          LET d == st_nodes[path].m_d_tree
          IN  /\ d.m_root_node[<<>>].previous_sum > 0
              /\ Cardinality(DOMAIN d.m_root_node) > 5

(***************************************************************************)
(* Properties of STree::record under the filters (checked under            *)
(* FilterSpec).                                                            *)
(***************************************************************************)
\* What sampling reads of a DTree is the same in a and b.
SameSampledDTree(a, b) ==
    /\ DOMAIN a.m_root_node = DOMAIN b.m_root_node
    /\ \A p \in DOMAIN b.m_root_node :
          /\ a.m_root_node[p].is_leaf = b.m_root_node[p].is_leaf
          /\ a.m_root_node[p].previous_sum = b.m_root_node[p].previous_sum
    /\ a.m_previous_iter_sample_weight = b.m_previous_iter_sample_weight
    /\ a.m_scattering_mode = b.m_scattering_mode
    /\ \A modes \in ModeMasks :
          /\ \A s \in Uniforms :
                DTreeSample(a, DTreeSampleNew, s, modes)
                    = DTreeSample(b, DTreeSampleNew, s, modes)
          /\ \A direction \in QueryDirections :
                DTreePdf(a, direction, modes) = DTreePdf(b, direction, modes)

\* C22: after any sequence of STree::record calls, under every spatial and
\* directional filter, the S-tree has the nodes and axes it started with,
\* every quadtree has the nodes it started with, and every node's
\* previous_sum, every DTree's previous sample weight and scattering mode
\* are what they were; DTree::sample and DTree::pdf answer as before.
C22_RecordsLeaveSampledState ==
    st_last.op = "record" =>
        /\ DOMAIN st_nodes = DOMAIN st_last.start
        /\ \A path \in DOMAIN st_last.start :
              /\ st_nodes[path].m_axis = st_last.start[path].m_axis
              /\ STreeIsLeaf(st_nodes[path])
                    <=> STreeIsLeaf(st_last.start[path])
              /\ STreeIsLeaf(st_last.start[path]) =>
                    SameSampledDTree(st_nodes[path].m_d_tree,
                                     st_last.start[path].m_d_tree)

\* Two box-filtered records have reached both leaves of a split S-tree,
\* added to their running weights and moved an Adam state.
C22_Witness ==
    /\ st_last.op = "record"
    /\ st_records = MaxFilterRecords
    /\ st_params.spatial_filter = "Box"
    /\ st_params.directional_filter = "Box"
    /\ Cardinality(STreeLeaves(st_nodes)) = 2
    /\ \A path \in STreeLeaves(st_nodes) :
          /\ st_nodes[path].m_d_tree.m_current_iter_sample_weight
               > st_last.start[path].m_d_tree.m_current_iter_sample_weight
          /\ st_nodes[path].m_d_tree.m_root_node
               # st_last.start[path].m_d_tree.m_root_node
          /\ ~UsesFallback(st_nodes[path].m_d_tree)
    /\ \E path \in STreeLeaves(st_nodes) :
          st_nodes[path].m_d_tree.m_theta
              # st_last.start[path].m_d_tree.m_theta

\* The splat that DTree::record builds for the last record in the DTree d
\* is not valid or has no volume.
HasBadSplat(d) ==
    LET splat_aabb == SplatBox(d.m_root_node, st_last.rec.direction)
    IN  ~is_valid(splat_aabb) \/ ~PositiveVolume(splat_aabb)

\* The last call of DTree::record, made by the Nearest spatial filter,
\* came to the quotient radiance / splat_aabb.volume() with a volume of 0.
DividedByZeroVolume ==
    /\ st_last.op = "record"
    /\ st_params.spatial_filter = "Nearest"
    /\ st_params.directional_filter = "Box"
    /\ ~IsSkipped(st_last.rec)
    /\ LET path == STreeLeafOf(st_last.before, <<>>, st_last.point)
           d == st_last.before[path].m_d_tree
           splat_aabb == SplatBox(d.m_root_node, st_last.rec.direction)
       IN  ~SkipsBadSplat(splat_aabb) /\ ~PositiveVolume(splat_aabb)

\* C27 (as stated): under the Box directional filter a record whose splat
\* is not valid or has no volume changes no running sum and no running
\* sample weight of the DTree, and no quotient by a volume of 0 is formed.
C27_Original ==
    (st_last.op = "record" /\ st_params.directional_filter = "Box") =>
        /\ \A path \in STreeLeaves(st_nodes) :
              LET before == st_last.before[path].m_d_tree
                  after == st_nodes[path].m_d_tree
              IN  HasBadSplat(before) =>
                      /\ after.m_root_node = before.m_root_node
                      /\ after.m_current_iter_sample_weight
                           = before.m_current_iter_sample_weight
        /\ ~DividedByZeroVolume

(***************************************************************************)
(* Properties of STree::build (checked under STreeLiveSpec and STreeSpec). *)
(***************************************************************************)
\* The weight w, counted in WeightUnit, is at most the whole part of
\* T = 4000 * 2^(iteration / 2), and so at most T: the least whole number
\* that is not below w has a square of at most 4000^2 * 2^iteration.
WithinThreshold(w, iteration) ==
    LET whole == (w + WeightUnit - 1) \div WeightUnit
    IN  whole * whole
          <= SpatialSubdivisionThreshold * SpatialSubdivisionThreshold
               * Pow2(iteration)

\* C23: in STree::build(iteration) the subdivide step comes to an end; it
\* splits a leaf only if its sample weight exceeds the whole part of
\* T = 4000 * 2^(iteration / 2), the children of a split included, and
\* when it ends every leaf holds a sample weight of at most T; no step of
\* the S-tree removes a node or turns an inner node into a leaf.
C23_SubdivideSplitsHeavyLeaves ==
    /\ [][/\ st_last'.op = "split" =>
               /\ st_last'.path \in STreeLeaves(st_nodes)
               /\ ~WithinThreshold(st_nodes[st_last'.path].m_d_tree
                                       .m_current_iter_sample_weight, st_iter)
               /\ STreeLeaves(st_nodes')
                    = (STreeLeaves(st_nodes) \ {st_last'.path})
                        \cup {Append(st_last'.path, 0),
                              Append(st_last'.path, 1)}
          /\ (st_phase = "subdivide" /\ st_phase' # "subdivide") =>
                \A path \in STreeLeaves(st_nodes) :
                    WithinThreshold(st_nodes[path].m_d_tree
                                        .m_current_iter_sample_weight, st_iter)
          /\ DOMAIN st_nodes \subseteq DOMAIN st_nodes'
          /\ \A path \in DOMAIN st_nodes :
                ~STreeIsLeaf(st_nodes[path]) => ~STreeIsLeaf(st_nodes'[path])
         ]_vars
    /\ (st_phase = "subdivide") ~> (st_phase = "render")

\* The third build has ended on an S-tree in which a child of a split leaf
\* was split in turn.
C23_Witness ==
    /\ st_last.op = "restructure"
    /\ st_iter = 4
    /\ \E path \in STreeLeaves(st_nodes) : Len(path) >= 2

\* The jobs of the running build that have been scheduled and have not
\* completed.
OpenJobs ==
    {jq_scheduled[i] : i \in DOMAIN jq_scheduled}
        \cup {jq_running[w] : w \in RunningJobs(jq_running)}

\* Every job scheduled so far is for a leaf, no leaf has two jobs, and a
\* job is scheduled, running or completed, one of the three.
JobsAreApart ==
    /\ \A i \in DOMAIN jq_log : jq_log[i] \in STreeLeaves(st_nodes)
    /\ \A i, j \in DOMAIN jq_log : jq_log[i] = jq_log[j] => i = j
    /\ \A i, j \in DOMAIN jq_scheduled :
          jq_scheduled[i] = jq_scheduled[j] => i = j
    /\ \A v, w \in RunningJobs(jq_running) :
          jq_running[v] = jq_running[w] => v = w
    /\ \A i \in DOMAIN jq_scheduled, w \in RunningJobs(jq_running) :
          jq_scheduled[i] # jq_running[w]
    /\ OpenJobs \cap jq_done = {}
    /\ OpenJobs \cup jq_done = {jq_log[i] : i \in DOMAIN jq_log}

\* Every leaf of the S-tree has had its job, and every job has completed.
AllJobsCompleted ==
    /\ {jq_log[i] : i \in DOMAIN jq_log} = STreeLeaves(st_nodes)
    /\ Len(jq_log) = Cardinality(STreeLeaves(st_nodes))
    /\ jq_done = STreeLeaves(st_nodes)
    /\ OpenJobs = {}

\* C24: while STree::build schedules and waits, every restructure job is
\* for a leaf DTree, no two jobs are for the same DTree, and a job is
\* scheduled, running or completed; the step on which the build sets
\* m_is_built, ends and counts its iteration is taken only when exactly one
\* job per leaf of the subdivided S-tree, the children made in this build
\* included, has been scheduled and all of them have completed.
C24_OneJobPerLeaf == [](st_phase = "schedule" => JobsAreApart) /\ [][(st_iter' # st_iter \/ st_is_built' # st_is_built \/ (st_phase = "schedule" /\ st_phase' # "schedule")) => (JobsAreApart /\ AllJobsCompleted)]_vars

\* The first build has returned: it split the root and both of its
\* children, scheduled a job for each of the four leaves, and two jobs
\* were running at the same time.
C24_Witness ==
    /\ st_last.op = "built"
    /\ st_iter = 2
    /\ jq_log = <<(<<0, 0>>), (<<0, 1>>), (<<1, 0>>), (<<1, 1>>)>>
    /\ jq_done = STreeLeaves(st_nodes)
    /\ jq_peak = 2

\* The proxy is built from a quadtree other than the one the DTree holds.
IsStale(proxy, d) ==
    /\ proxy.is_built
    /\ proxy.map # build_radiance_map(d)

\* C26 as stated: after each DTree::restructure, in either branch, the
\* proxy of the DTree is not built or is the one built from the quadtree as
\* the DTree holds it, and the proxy a sampler copies is never one built
\* from the quadtree of an earlier iteration.
C26_Original ==
    /\ q_last.op \in {"reset", "restructure"} => ~IsStale(px_proxy, d_tree)
    /\ q_last.op = "sampler" => ~IsStale(px_sampler, d_tree)

\* Every child index of the list is 0 for a leaf child and the position in
\* the list, counted from 0, of the child's node otherwise.
FlattenIsRight(nodes, tree) ==
    \A i \in DOMAIN nodes, k \in 1..4 :
        LET c == ChildPath(nodes[i].path, FlattenSlots[k])
            index == nodes[i].children[k]
        IN  /\ c \in DOMAIN tree
            /\ (index = 0) = tree[c].is_leaf
            /\ index # 0 =>
                  /\ index + 1 \in DOMAIN nodes
                  /\ nodes[index + 1].path = c

\* C30 as stated: in every state the root of the DTree's quadtree is an
\* internal node, and the list flatten writes has a child index of 0 for
\* each leaf child and the list position of the child's node otherwise.
C30_Original ==
    /\ ~d_tree.m_root_node[<<>>].is_leaf
    /\ q_last.op = "flatten" => FlattenIsRight(q_last.nodes, d_tree.m_root_node)

\* C28 as stated: in every state of a run, for every budget the constructor
\* accepts, passes_rendered + remaining_passes = max_passes and
\* passes_left_curr_iter <= remaining_passes, and between on_pass_begin and
\* its on_pass_end passes_left_curr_iter >= 1, so that no decrement of
\* on_pass_end takes an unsigned counter below zero.
C28_Original ==
    /\ m_passes_rendered + m_remaining_passes = m_max_passes
    /\ m_passes_left_curr_iter <= m_remaining_passes
    /\ pc \in {"render", "end"} => m_passes_left_curr_iter >= 1

\* on_pass_begin has just started iteration m_iter - 1.
IterationStarted == last_call = "begin_new_iter"

\* C29 as stated: an iteration k that starts as non-final is given exactly
\* 2^k passes and leaves at least 2^(k+1) passes of budget, and when it
\* ends 2^(k+1) - 1 passes have been rendered; a run that is not aborted
\* ends in a final iteration; a final iteration started by the budget rule
\* at iteration k has fewer than 3 * 2^k passes and at least 2^k or all
\* that remain; and as long as no variance rise was seen STree::build has
\* been called with 1, 2, ..., k.
C29_Original ==
    /\ IterationStarted /\ ~m_is_final_iter =>
          /\ m_num_passes_curr_iter = Pow2(m_iter - 1)
          /\ m_passes_left_curr_iter = Pow2(m_iter - 1)
          /\ m_remaining_passes - Pow2(m_iter - 1) >= Pow2(m_iter)
    /\ last_call = "end_boundary" => m_passes_rendered = Pow2(m_iter) - 1
    /\ last_call = "end_finished" /\ ~aborted => m_is_final_iter
    /\ IterationStarted /\ m_is_final_iter /\ ~m_var_increase =>
          /\ m_passes_left_curr_iter < 3 * Pow2(m_iter - 1)
          /\ \/ m_passes_left_curr_iter >= Pow2(m_iter - 1)
             \/ m_passes_left_curr_iter = m_remaining_passes
    /\ ~m_var_increase => sd_build_calls = Max(m_iter - 1, 0)


(***************************************************************************)
(* The Combine progression (checked under PassSpec).                       *)
(***************************************************************************)
InCombine == m_params.iteration_progression = "Combine"

\* Iterations that ended at an iteration boundary of on_pass_end so far.
CompletedIterations ==
    IF pc = "begin" /\ m_passes_left_curr_iter = 0 THEN m_iter ELSE m_iter - 1

\* Every image stashed so far, oldest first: the one taken at the end of
\* each completed iteration j, after 2^j - 1 passes, and the final image.
AllStashed ==
    [j \in 1..CompletedIterations |-> Pow2(j) - 1]
        \o (IF pc = "done" THEN <<m_passes_rendered>> ELSE <<>>)

LastStashed(stashed) ==
    IF Len(stashed) <= ImageBufferCapacity
    THEN stashed
    ELSE SubSeq(stashed, Len(stashed) - ImageBufferCapacity + 1, Len(stashed))

RECURSIVE FactorSum(_, _)
FactorSum(frame, n) ==
    IF n = 0
    THEN Frac(0, 1)
    ELSE WeightPlus(FactorSum(frame, n - 1), frame[n].factor)

IsOne(a) == a.den # 0 /\ a.num = a.den

\* The stashes have one length, at most ImageBufferCapacity, and hold the
\* newest of the images stashed so far.
StashIsRight ==
    /\ Len(m_image_buffer) = Len(m_inverse_variance_buffer)
    /\ Len(m_image_buffer) <= ImageBufferCapacity
    /\ m_image_buffer = LastStashed(AllStashed)

\* The frame written at finish scales stashed image i by w_i / (sum of w),
\* w_i = 1 / variance_i, and the scales sum to 1.
FrameIsRight ==
    /\ Len(fb_frame) = Len(m_image_buffer)
    /\ \A i \in 1..Len(fb_frame) :
         /\ fb_frame[i].image = m_image_buffer[i]
         /\ fb_frame[i].factor =
                WeightOver(m_inverse_variance_buffer[i],
                           TotalInverseVariances(
                               m_inverse_variance_buffer,
                               Len(m_inverse_variance_buffer)))
    /\ IsOne(FactorSum(fb_frame, Len(fb_frame)))

\* C25: in Combine progression the image stash and the inverse-variance
\* stash always have the same length, at most 4, the oldest entry evicted
\* first; one image is stashed at every iteration boundary and the final
\* image before combining; the frame written at finish is the sum over the
\* stashed images of image_i * w_i / (sum of w), w_i = 1 / variance_i, with
\* normalised weights that sum to 1.
C25_Original ==
    InCombine => /\ StashIsRight
                 /\ pc = "done" => FrameIsRight

====
